---- MODULE Spec2Model ----
(***************************************************************************)
(* Account rotation and health-state engine of opencode-kimi-rotator:      *)
(* the durable store (KimiStorage), the rotation engine                    *)
(* (KimiAccountManager) and the fetch interceptor that drives them.        *)
(*                                                                         *)
(* Time is counted in minutes (60000 ms): Date.now() is `now`, a           *)
(* retry-after of 60000 ms is 1, healthRefreshCooldownMinutes * 60 * 1000  *)
(* ms is healthRefreshCooldownMinutes.  Account indices are 0-based as in  *)
(* the source; accounts[i] of the source is accounts[i + 1] here.          *)
(* The display fields `name` and `dailyRequests` of an account are not     *)
(* modelled: no operation below reads them.                                *)
(***************************************************************************)
EXTENDS Integers, Sequences, FiniteSets, TLC

\* ---------------------------------------------------------------- bounds
NumProcs == 2
MaxAccounts == 3
MaxOps == 2
MaxSeqOps == 2
MaxSelects == 4
MaxTicks == 1
MaxErrOps == 1
MaxScoreOps == 1
MaxTextOps == 2
MaxRefreshes == 10
MaxReports == 5
StartTime == 2000

Procs == 1..NumProcs
NoProc == 0
MaxTime == StartTime + MaxTicks

\* ------------------------------------------------------ program constants
minHealthScore == 30
stickyBonus == 50
MinutesPerDay == 1440
MinutesPerHour == 60
LOCK_RETRIES == 3

Min(a, b) == IF a < b THEN a ELSE b
Max(a, b) == IF a > b THEN a ELSE b

Strategies == {"round-robin", "health-based", "sticky"}

\* ------------------------------------------------------------ data model
DEFAULT_ACCOUNT ==
  [ rateLimitResetTime |-> 0, billingLimitResetTime |-> 0, healthScore |-> 100,
    consecutiveFailures |-> 0, consecutiveBillingLimitHits |-> 0,
    totalRequests |-> 0, successfulRequests |-> 0, responseTimes |-> << >> ]

\* addAccount's newAccount: { key, addedAt: now, lastUsed: now, ...DEFAULT_ACCOUNT }
NewAccount(key, t) ==
  [ key |-> key, addedAt |-> t, lastUsed |-> t,
    rateLimitResetTime |-> DEFAULT_ACCOUNT.rateLimitResetTime,
    billingLimitResetTime |-> DEFAULT_ACCOUNT.billingLimitResetTime,
    healthScore |-> DEFAULT_ACCOUNT.healthScore,
    consecutiveFailures |-> DEFAULT_ACCOUNT.consecutiveFailures,
    consecutiveBillingLimitHits |-> DEFAULT_ACCOUNT.consecutiveBillingLimitHits,
    totalRequests |-> DEFAULT_ACCOUNT.totalRequests,
    successfulRequests |-> DEFAULT_ACCOUNT.successfulRequests,
    responseTimes |-> DEFAULT_ACCOUNT.responseTimes ]

\* { ...DEFAULT_CONFIG, accounts: [] }
DEFAULT_CONFIG ==
  [ version |-> 1, accounts |-> << >>, activeIndex |-> 0,
    rotationStrategy |-> "health-based", autoRefreshHealth |-> TRUE,
    healthRefreshCooldownMinutes |-> 30 ]

\* KimiAccountSchema: key non-empty, healthScore in [0,100]
KimiAccountSchema(a) ==
  /\ a.key # ""
  /\ a.healthScore >= 0
  /\ a.healthScore <= 100

AcceptsAll(c) == TRUE

\* KimiAccountsConfigSchema.parse succeeds.  activeIndex is z.number(): any number.
KimiAccountsConfigSchema(c) ==
  /\ \A i \in 1..Len(c.accounts) : KimiAccountSchema(c.accounts[i])
  /\ c.rotationStrategy \in Strategies
  /\ c.healthRefreshCooldownMinutes >= 1
  /\ c.healthRefreshCooldownMinutes <= 1440

\* the index test of removeAccount, setActiveIndex, updateAccount and getAccount
InvalidIndex(index, accounts) == index < 0 \/ index >= Len(accounts)

\* { ...account, ...updates }
Merge(account, updates) ==
  [ f \in DOMAIN account |-> IF f \in DOMAIN updates THEN updates[f] ELSE account[f] ]

\* config.accounts[index] = { ...config.accounts[index], ...updates }
WithAccount(c, index, updates) ==
  [ c EXCEPT !.accounts[index + 1] = Merge(c.accounts[index + 1], updates) ]

\* config.accounts.splice(index, 1)
Splice(accounts, index) ==
  [ j \in 1..(Len(accounts) - 1) |-> IF j <= index THEN accounts[j] ELSE accounts[j + 1] ]

RemoveFromNoClamp(c, index) == [ c EXCEPT !.accounts = Splice(c.accounts, index) ]

\* removeAccount: splice, then clamp activeIndex
RemoveFrom(c, index) ==
  LET rest == Splice(c.accounts, index)
  IN  [ c EXCEPT !.accounts = rest,
                 !.activeIndex = IF c.activeIndex >= Len(rest)
                                 THEN Max(0, Len(rest) - 1)
                                 ELSE c.activeIndex ]

HasKeyNever(accounts, key) == FALSE

\* config.accounts.findIndex((a) => a.key === key) !== -1
HasKey(accounts, key) == \E i \in 1..Len(accounts) : accounts[i].key = key

NextIndexFirst(availableIndices, currentIndex) == Head(availableIndices)

\* availableIndices.find((idx) => idx > currentIndex) ?? availableIndices[0]
NextIndex(availableIndices, currentIndex) ==
  LET greater == SelectSeq(availableIndices, LAMBDA idx : idx > currentIndex)
  IN  IF greater # << >> THEN Head(greater) ELSE Head(availableIndices)

isRateLimitedInclusive(account, t) ==
  account.rateLimitResetTime >= t \/ account.billingLimitResetTime >= t

\* ------------------------------------------------------- rotation engine
isRateLimited(account, t) ==
  \/ account.rateLimitResetTime > t
  \/ account.billingLimitResetTime > t

IndexSeq(n) == [ j \in 1..n |-> j - 1 ]

getAvailableIndicesNoFloor(config, t) ==
  SelectSeq(IndexSeq(Len(config.accounts)),
            LAMBDA i : ~isRateLimited(config.accounts[i + 1], t))

\* !isRateLimited(account) && account.healthScore >= minHealthScore
getAvailableIndices(config, t) ==
  SelectSeq(IndexSeq(Len(config.accounts)),
            LAMBDA i : /\ ~isRateLimited(config.accounts[i + 1], t)
                       /\ config.accounts[i + 1].healthScore >= minHealthScore)

\* the loop of getSoonestAvailableIndex from position i on
RECURSIVE SoonestFrom(_, _, _, _)
SoonestFrom(accounts, i, soonestIndex, soonestTime) ==
  IF i >= Len(accounts) THEN soonestIndex
  ELSE IF accounts[i + 1].rateLimitResetTime < soonestTime
       THEN SoonestFrom(accounts, i + 1, i, accounts[i + 1].rateLimitResetTime)
       ELSE SoonestFrom(accounts, i + 1, soonestIndex, soonestTime)

getSoonestAvailableIndex(config) ==
  SoonestFrom(config.accounts, 1, 0, config.accounts[1].rateLimitResetTime)

calculateAccountScoreNoBonus(account, isCurrent, t) ==
  MinutesPerHour * account.healthScore
  + Min(20 * MinutesPerHour, t - account.lastUsed)

\* calculateAccountScore times 60: healthScore + min(20, minutes / 60) (+ 50)
calculateAccountScore(account, isCurrent, t) ==
  MinutesPerHour * account.healthScore
  + Min(20 * MinutesPerHour, t - account.lastUsed)
  + (IF isCurrent THEN MinutesPerHour * stickyBonus ELSE 0)

RECURSIVE BestFromLastWins(_, _, _, _, _, _)
BestFromLastWins(config, rest, currentIndex, t, bestIndex, bestScore) ==
  IF rest = << >> THEN bestIndex
  ELSE LET index == Head(rest)
           score == calculateAccountScore(config.accounts[index + 1], index = currentIndex, t)
       IN  IF score >= bestScore
           THEN BestFromLastWins(config, Tail(rest), currentIndex, t, index, score)
           ELSE BestFromLastWins(config, Tail(rest), currentIndex, t, bestIndex, bestScore)

\* the scoring loop of healthBasedRotation over availableIndices.slice(1)
RECURSIVE BestFrom(_, _, _, _, _, _)
BestFrom(config, rest, currentIndex, t, bestIndex, bestScore) ==
  IF rest = << >> THEN bestIndex
  ELSE LET index == Head(rest)
           score == calculateAccountScore(config.accounts[index + 1], index = currentIndex, t)
       IN  IF score > bestScore
           THEN BestFrom(config, Tail(rest), currentIndex, t, index, score)
           ELSE BestFrom(config, Tail(rest), currentIndex, t, bestIndex, bestScore)

BestIndex(config, availableIndices, t) ==
  LET first == Head(availableIndices)
  IN  BestFrom(config, Tail(availableIndices), config.activeIndex, t, first,
               calculateAccountScore(config.accounts[first + 1],
                                     first = config.activeIndex, t))

\* new Date(y, m, d + 1, 0, 0, 0, 0).getTime(): the next midnight after t
NextMidnight(t) == ((t \div MinutesPerDay) + 1) * MinutesPerDay

\* health score arithmetic of the outcome reports and of refreshHealthScores
SuccessScore(h) == Min(100, h + 2)
RateLimitedScore(h) == Max(0, h - 15)
BillingLimitedScore(h) == Max(0, h - 30)
FailureScoreNoFloor(h) == h - 20
FailureScore(h) == Max(0, h - 20)
RefreshScoreHalf(h) == Min(100, h + 5)

RefreshScore(h) == Min(100, h + 10)

PushResponseTimeNoShift(responseTimes, responseTime) ==
  Append(responseTimes, responseTime)

\* responseTimes of markAccountSuccess: append, shift when longer than 100
PushResponseTime(responseTimes, responseTime) ==
  LET appended == Append(responseTimes, responseTime)
  IN  IF Len(appended) > 100 THEN Tail(appended) ELSE appended

\* ------------------------------------------------------------------ state
VARIABLES
  file,                 \* the parsed content of kimi-accounts.json
  exists,               \* whether kimi-accounts.json exists
  lock,                 \* the holder of the proper-lockfile lock, or NoProc
  now,                  \* Date.now()
  pc,                   \* per caller: the steps left of the operation in progress
  reg,                  \* per caller: arguments, locals and result of its operation
  currentAccountIndex,  \* the plugin's module-level currentAccountIndex
  ops,                  \* number of operations started so far
  limit,                \* number of operations the run may start
  doc0                  \* the document the run started from

vars == << file, exists, lock, now, pc, reg, currentAccountIndex, ops, limit, doc0 >>

NoUpdates == [ f \in {} |-> 0 ]

\* retry-after absent: 60000 ms
DefaultRetryAfter == 1

BlankReg ==
  [ op |-> "none", status |-> "idle", error |-> "", try |-> "none",
    force |-> FALSE, index |-> -1, key |-> "", outcome |-> "",
    availableIndices |-> << >>, config |-> DEFAULT_CONFIG, loaded |-> DEFAULT_CONFIG,
    account |-> NewAccount("", 0), updates |-> NoUpdates,
    reason |-> "", decidedAt |-> 0, usedAt |-> 0, startedAt |-> 0,
    responseTime |-> -1, retryAfterMs |-> DefaultRetryAfter, refreshed |-> 0,
    attempts |-> 0 ]

\* the steps that run inside one lock acquisition (acquireLock ... release)
LockLabels ==
  { "gn_load", "gai", "sa_load", "save", "mu_get", "mk_get", "up_load",
    "add_load", "rm_load", "ic_list", "rf_load", "rf_up" }

At(p, label) == pc[p] # << >> /\ Head(pc[p]) = label
Idle(p) == pc[p] = << >>

MarkUsedSteps == << "mu_get", "up_load", "save" >>
SetActiveSteps == << "sa_load", "save" >>
ReportSteps == << "mk_get", "up_load", "save" >>

\* the registers after the operation has returned or thrown: its result, its
\* arguments and the config it decided on stay readable, its other locals go
Returned(r, status) ==
  [ r EXCEPT !.status = status, !.try = "none", !.loaded = BlankReg.loaded,
             !.account = BlankReg.account,
             !.usedAt = 0, !.startedAt = 0, !.responseTime = -1 ]

\* continue with the steps `rest`; r is the caller's new register file.
\* markAccountUsed evaluates lastUsed: Date.now() when it is called.
Goto(p, rest, r) ==
  /\ pc' = [ pc EXCEPT ![p] = rest ]
  /\ reg' = [ reg EXCEPT ![p] =
       IF rest = << >>
       THEN Returned(r, IF r.error = "" THEN "ok" ELSE "error")
       ELSE IF Head(rest) = "mu_get"
       THEN [ r EXCEPT !.usedAt = now, !.attempts = 0 ]
       ELSE [ r EXCEPT !.attempts = 0 ] ]

\* an exception leaves the operation.  Inside the interceptor's try block the
\* catch clause reports a failure for currentAccountIndex and rethrows; inside
\* the billing branch's inner try the exception is ignored.
Throw(p, e) ==
  IF reg[p].try = "outer"
  THEN /\ pc' = [ pc EXCEPT ![p] = ReportSteps ]
       /\ reg' = [ reg EXCEPT ![p].try = "none", ![p].outcome = "failure",
                               ![p].index = currentAccountIndex, ![p].error = e,
                               ![p].attempts = 0 ]
  ELSE IF reg[p].try = "inner"
  THEN /\ pc' = [ pc EXCEPT ![p] = << >> ]
       /\ reg' = [ reg EXCEPT ![p] = Returned(reg[p], "ok") ]
  ELSE /\ pc' = [ pc EXCEPT ![p] = << >> ]
       /\ reg' = [ reg EXCEPT ![p] = Returned([ reg[p] EXCEPT !.error = e ], "error") ]

\* -------------------------------------------------------------- the lock
\* acquireLock: create the file with the default document when fs.access
\* fails, then lockfile.lock
acquireLock(p) ==
  /\ pc[p] # << >>
  /\ Head(pc[p]) \in LockLabels
  /\ lock = NoProc
  /\ lock' = p
  /\ exists' = TRUE
  /\ file' = IF exists THEN file ELSE DEFAULT_CONFIG
  /\ UNCHANGED << now, pc, reg, currentAccountIndex, ops, limit, doc0 >>

\* lockfile.lock gives up after its retries while another caller holds the lock
LockTimeout(p) ==
  /\ pc[p] # << >>
  /\ Head(pc[p]) \in LockLabels
  /\ lock # NoProc
  /\ lock # p
  /\ exists' = TRUE
  /\ file' = IF exists THEN file ELSE DEFAULT_CONFIG
  /\ Throw(p, "LockTimeout")
  /\ UNCHANGED << lock, now, currentAccountIndex, ops, limit, doc0 >>

\* the body of a critical section: entered holding the lock, left releasing it
\* the sections that read the file through loadConfig need it to be there
\* (loadConfigENOENT is the other case); saveConfig and
\* getAndIncrementActiveIndex do not go through loadConfig
WriteLabels == { "save", "gai" }

Section(p, label) ==
  /\ At(p, label)
  /\ lock = p
  /\ lock' = NoProc
  /\ label \in WriteLabels \/ exists

\* loadConfig's readFile + KimiAccountsConfigSchema.parse succeeds
Readable == exists /\ KimiAccountsConfigSchema(file)

\* lockfile.lock with retries: LOCK_RETRIES, attempt by attempt.  A caller is
\* blocked while another caller holds the lock, or while it holds the lock
\* itself and is in the saveConfig that loadConfig's ENOENT branch calls.
RetriesLeftAlways(attempts) == TRUE

RetriesLeft(attempts) == attempts < LOCK_RETRIES

Blocked(p) ==
  /\ pc[p] # << >>
  /\ \/ Head(pc[p]) \in LockLabels /\ lock # NoProc /\ lock # p
     \/ Head(pc[p]) = "ld_save" /\ lock = p

\* an attempt found the lock held and a retry is left
lockRetry(p) ==
  /\ Blocked(p)
  /\ RetriesLeft(reg[p].attempts)
  /\ reg' = [ reg EXCEPT ![p].attempts = Min(reg[p].attempts + 1, LOCK_RETRIES) ]
  /\ exists' = TRUE
  /\ file' = IF exists THEN file ELSE DEFAULT_CONFIG
  /\ UNCHANGED << lock, now, pc, currentAccountIndex, ops, limit, doc0 >>

\* the last attempt found the lock held: lockfile.lock rejects; a caller in
\* loadConfig's catch block leaves through its finally and releases
lockGiveUp(p) ==
  /\ Blocked(p)
  /\ ~RetriesLeft(reg[p].attempts)
  /\ lock' = IF lock = p THEN NoProc ELSE lock
  /\ exists' = TRUE
  /\ file' = IF exists THEN file ELSE DEFAULT_CONFIG
  /\ Throw(p, "LockTimeout")
  /\ UNCHANGED << now, currentAccountIndex, ops, limit, doc0 >>

\* loadConfig: readFile fails with ENOENT; the catch block calls
\* saveConfig(default) while the lock is still held
loadConfigENOENT(p) ==
  /\ pc[p] # << >>
  /\ Head(pc[p]) \in LockLabels \ WriteLabels
  /\ lock = p
  /\ ~exists
  /\ pc' = [ pc EXCEPT ![p] = << "ld_save" >> ]
  /\ reg' = [ reg EXCEPT ![p].reason = "ENOENT", ![p].attempts = 0 ]
  /\ UNCHANGED << file, exists, lock, now, currentAccountIndex, ops, limit, doc0 >>

\* the accounts file is removed from outside the program
unlink ==
  /\ exists
  /\ exists' = FALSE
  /\ UNCHANGED << file, lock, now, pc, reg, currentAccountIndex, ops, limit, doc0 >>

\* ------------------------------------------------------------- the store
\* saveConfig(config): validate, write
saveConfig(p) ==
  /\ Section(p, "save")
  /\ IF KimiAccountsConfigSchema(reg[p].loaded)
     THEN /\ file' = reg[p].loaded
          /\ exists' = TRUE
          /\ Goto(p, Tail(pc[p]), reg[p])
     ELSE /\ Throw(p, "ZodError")
          /\ UNCHANGED << file, exists >>
  /\ UNCHANGED << now, currentAccountIndex, ops, limit, doc0 >>

\* addAccount up to its saveConfig
addAccount(p) ==
  /\ Section(p, "add_load")
  /\ IF ~Readable THEN Throw(p, "ZodError")
     ELSE IF HasKey(file.accounts, reg[p].key) THEN Throw(p, "DuplicateKey")
     ELSE Goto(p, Tail(pc[p]),
               [ reg[p] EXCEPT !.loaded =
                   [ file EXCEPT !.accounts = Append(file.accounts, NewAccount(reg[p].key, now)) ] ])
  /\ UNCHANGED << file, exists, now, currentAccountIndex, ops, limit, doc0 >>

\* removeAccount up to its saveConfig
removeAccount(p) ==
  /\ Section(p, "rm_load")
  /\ IF ~Readable THEN Throw(p, "ZodError")
     ELSE IF InvalidIndex(reg[p].index, file.accounts) THEN Throw(p, "InvalidIndex")
     ELSE Goto(p, Tail(pc[p]), [ reg[p] EXCEPT !.loaded = RemoveFrom(file, reg[p].index) ])
  /\ UNCHANGED << file, exists, now, currentAccountIndex, ops, limit, doc0 >>

setActiveIndexUnchecked(p) ==
  /\ Section(p, "sa_load")
  /\ IF ~Readable THEN Throw(p, "ZodError")
     ELSE Goto(p, Tail(pc[p]),
               [ reg[p] EXCEPT !.loaded = [ file EXCEPT !.activeIndex = reg[p].index ] ])
  /\ UNCHANGED << file, exists, now, currentAccountIndex, ops, limit, doc0 >>

\* setActiveIndex up to its saveConfig
setActiveIndex(p) ==
  /\ Section(p, "sa_load")
  /\ IF ~Readable THEN Throw(p, "ZodError")
     ELSE IF InvalidIndex(reg[p].index, file.accounts) THEN Throw(p, "InvalidIndex")
     ELSE Goto(p, Tail(pc[p]),
               [ reg[p] EXCEPT !.loaded = [ file EXCEPT !.activeIndex = reg[p].index ] ])
  /\ UNCHANGED << file, exists, now, currentAccountIndex, ops, limit, doc0 >>

\* updateAccount up to its saveConfig
updateAccount(p) ==
  /\ Section(p, "up_load")
  /\ IF ~Readable THEN Throw(p, "ZodError")
     ELSE IF InvalidIndex(reg[p].index, file.accounts) THEN Throw(p, "InvalidIndex")
     ELSE Goto(p, Tail(pc[p]),
               [ reg[p] EXCEPT !.loaded = WithAccount(file, reg[p].index, reg[p].updates) ])
  /\ UNCHANGED << file, exists, now, currentAccountIndex, ops, limit, doc0 >>

\* getAndIncrementActiveIndex inside its lock: read, pick, write
getAndIncrementActiveIndex(p) ==
  /\ Section(p, "gai")
  /\ IF ~Readable
     THEN /\ Throw(p, "ZodError")
          /\ UNCHANGED file
     ELSE LET nextIndex == NextIndex(reg[p].availableIndices, file.activeIndex)
          IN  /\ file' = [ file EXCEPT !.activeIndex = nextIndex ]
              /\ Goto(p, Tail(pc[p]), [ reg[p] EXCEPT !.index = nextIndex ])
  /\ UNCHANGED << exists, now, currentAccountIndex, ops, limit, doc0 >>

\* init: fs.access(accountsFilePath) outside any lock; when it fails,
\* saveConfig({ ...DEFAULT_CONFIG, accounts: [] })
init(p) ==
  /\ At(p, "in_access")
  /\ IF exists
     THEN Goto(p, << >>, reg[p])
     ELSE Goto(p, << "save" >>, [ reg[p] EXCEPT !.loaded = DEFAULT_CONFIG ])
  /\ UNCHANGED << file, exists, lock, now, currentAccountIndex, ops, limit, doc0 >>

\* -------------------------------------------------- the rotation engine
Decision(index, reason, steps, availableIndices) ==
  [ index |-> index, reason |-> reason, steps |-> steps,
    availableIndices |-> availableIndices, error |-> "" ]

\* config.accounts[currentIndex] is undefined: isRateLimited(undefined) throws
Undefined == Decision(-1, "", << >>, << >>)

roundRobinRotationSetsActive(config, t) ==
  LET availableIndices == getAvailableIndices(config, t)
  IN  IF availableIndices = << >>
      THEN Decision(getSoonestAvailableIndex(config), "all-rate-limited",
                    SetActiveSteps, << >>)
      ELSE Decision(-1, "round-robin", << "gai" >> \o MarkUsedSteps, availableIndices)

roundRobinRotation(config, t) ==
  LET availableIndices == getAvailableIndices(config, t)
  IN  IF availableIndices = << >>
      THEN Decision(getSoonestAvailableIndex(config), "all-rate-limited", << >>, << >>)
      ELSE Decision(-1, "round-robin", << "gai" >> \o MarkUsedSteps, availableIndices)

stickyRotation(config, forceRotation, t) ==
  LET currentIndex == config.activeIndex
      availableIndices ==
        SelectSeq(getAvailableIndices(config, t), LAMBDA idx : idx # currentIndex)
  IN  IF ~forceRotation /\ InvalidIndex(currentIndex, config.accounts)
      THEN [ Undefined EXCEPT !.error = "TypeError" ]
      ELSE IF ~forceRotation /\ ~isRateLimited(config.accounts[currentIndex + 1], t)
      THEN Decision(currentIndex, "sticky", MarkUsedSteps, << >>)
      ELSE IF availableIndices = << >>
      THEN Decision(getSoonestAvailableIndex(config), "all-rate-limited",
                    SetActiveSteps, << >>)
      ELSE Decision(Head(availableIndices), "sticky-rotation",
                    SetActiveSteps \o MarkUsedSteps, availableIndices)

healthBasedRotationKeepAtFloor(config, forceRotation, t) ==
  LET currentIndex == config.activeIndex
      availableIndices == getAvailableIndices(config, t)
  IN  IF ~forceRotation /\ InvalidIndex(currentIndex, config.accounts)
      THEN [ Undefined EXCEPT !.error = "TypeError" ]
      ELSE IF /\ ~forceRotation
              /\ ~isRateLimited(config.accounts[currentIndex + 1], t)
              /\ config.accounts[currentIndex + 1].healthScore >= minHealthScore
      THEN Decision(currentIndex, "health-sticky", MarkUsedSteps, << >>)
      ELSE IF availableIndices = << >>
      THEN Decision(getSoonestAvailableIndex(config), "all-rate-limited",
                    SetActiveSteps, << >>)
      ELSE Decision(BestIndex(config, availableIndices, t), "health-based",
                    SetActiveSteps \o MarkUsedSteps, availableIndices)

healthBasedRotation(config, forceRotation, t) ==
  LET currentIndex == config.activeIndex
      availableIndices == getAvailableIndices(config, t)
  IN  IF ~forceRotation /\ InvalidIndex(currentIndex, config.accounts)
      THEN [ Undefined EXCEPT !.error = "TypeError" ]
      ELSE IF /\ ~forceRotation
              /\ ~isRateLimited(config.accounts[currentIndex + 1], t)
              /\ config.accounts[currentIndex + 1].healthScore > minHealthScore
      THEN Decision(currentIndex, "health-sticky", MarkUsedSteps, << >>)
      ELSE IF availableIndices = << >>
      THEN Decision(getSoonestAvailableIndex(config), "all-rate-limited",
                    SetActiveSteps, << >>)
      ELSE Decision(BestIndex(config, availableIndices, t), "health-based",
                    SetActiveSteps \o MarkUsedSteps, availableIndices)

\* the switch of getNextAccount for two or more accounts
Rotation(config, forceRotation, t) ==
  CASE config.rotationStrategy = "round-robin" -> roundRobinRotation(config, t)
    [] config.rotationStrategy = "sticky" -> stickyRotation(config, forceRotation, t)
    [] OTHER -> healthBasedRotation(config, forceRotation, t)

\* getNextAccount: loadConfig, then the choice made from the loaded config
getNextAccount(p) ==
  /\ Section(p, "gn_load")
  /\ IF ~Readable THEN Throw(p, "ZodError")
     ELSE LET r == [ reg[p] EXCEPT !.config = file, !.decidedAt = now ]
              d == Rotation(file, reg[p].force, now)
          IN  IF Len(file.accounts) = 0
              THEN Goto(p, << >>, [ r EXCEPT !.reason = "empty" ])
              ELSE IF Len(file.accounts) = 1
              THEN Goto(p, MarkUsedSteps \o Tail(pc[p]),
                        [ r EXCEPT !.index = 0, !.reason = "single-account" ])
              ELSE IF d.error # "" THEN Throw(p, d.error)
              ELSE Goto(p, d.steps \o Tail(pc[p]),
                        [ r EXCEPT !.index = d.index, !.reason = d.reason,
                                   !.availableIndices = d.availableIndices ])
  /\ UNCHANGED << file, exists, now, currentAccountIndex, ops, limit, doc0 >>

UsedUpdatesNoCount(account, usedAt) == [ lastUsed |-> usedAt ]

\* the updates of markAccountUsed and of the four outcome reports
UsedUpdates(account, usedAt) ==
  [ lastUsed |-> usedAt, totalRequests |-> account.totalRequests + 1 ]

\* responseTime = -1 stands for the argument left undefined
SuccessUpdates(account, responseTime) ==
  IF responseTime = -1
  THEN [ healthScore |-> SuccessScore(account.healthScore),
         successfulRequests |-> account.successfulRequests + 1,
         consecutiveFailures |-> 0 ]
  ELSE [ healthScore |-> SuccessScore(account.healthScore),
         successfulRequests |-> account.successfulRequests + 1,
         consecutiveFailures |-> 0,
         responseTimes |-> PushResponseTime(account.responseTimes, responseTime) ]

RateLimitedUpdatesNoDelay(account, retryAfterMs, t) ==
  [ healthScore |-> RateLimitedScore(account.healthScore),
    rateLimitResetTime |-> t,
    consecutiveFailures |-> account.consecutiveFailures + 1 ]

RateLimitedUpdates(account, retryAfterMs, t) ==
  [ healthScore |-> RateLimitedScore(account.healthScore),
    rateLimitResetTime |-> t + retryAfterMs,
    consecutiveFailures |-> account.consecutiveFailures + 1 ]

BillingLimitedUpdates(account, t) ==
  [ healthScore |-> BillingLimitedScore(account.healthScore),
    billingLimitResetTime |-> NextMidnight(t),
    consecutiveFailures |-> account.consecutiveFailures + 1 ]

FailureUpdates(account) ==
  [ healthScore |-> FailureScore(account.healthScore),
    consecutiveFailures |-> account.consecutiveFailures + 1 ]

OutcomeUpdates(outcome, account, responseTime, retryAfterMs, t) ==
  CASE outcome = "success" -> SuccessUpdates(account, responseTime)
    [] outcome = "rate-limited" -> RateLimitedUpdates(account, retryAfterMs, t)
    [] outcome = "billing" -> BillingLimitedUpdates(account, t)
    [] OTHER -> FailureUpdates(account)

\* markAccountUsed up to its updateAccount: getAccount(index), then the updates
markAccountUsed(p) ==
  /\ Section(p, "mu_get")
  /\ IF ~Readable THEN Throw(p, "ZodError")
     ELSE IF InvalidIndex(reg[p].index, file.accounts) THEN Throw(p, "InvalidIndex")
     ELSE LET account == file.accounts[reg[p].index + 1]
          IN  Goto(p, Tail(pc[p]),
                   [ reg[p] EXCEPT !.account = account,
                                   !.updates = UsedUpdates(account, reg[p].usedAt) ])
  /\ UNCHANGED << file, exists, now, currentAccountIndex, ops, limit, doc0 >>

\* markAccountSuccess / RateLimited / BillingLimited / Failure up to updateAccount
markAccountOutcome(p) ==
  /\ Section(p, "mk_get")
  /\ IF ~Readable THEN Throw(p, "ZodError")
     ELSE IF InvalidIndex(reg[p].index, file.accounts) THEN Throw(p, "InvalidIndex")
     ELSE LET account == file.accounts[reg[p].index + 1]
          IN  Goto(p, Tail(pc[p]),
                   [ reg[p] EXCEPT !.account = account,
                                   !.updates = OutcomeUpdates(reg[p].outcome, account,
                                                              reg[p].responseTime,
                                                              reg[p].retryAfterMs, now) ])
  /\ UNCHANGED << file, exists, now, currentAccountIndex, ops, limit, doc0 >>

shouldRefreshAnyway(config, account, t) ==
  /\ account.healthScore < 100
  /\ t - account.rateLimitResetTime >= config.healthRefreshCooldownMinutes
  /\ account.rateLimitResetTime <= t

\* refreshHealthScores: the test made on the config loaded at the start
shouldRefresh(config, account, t) ==
  /\ config.autoRefreshHealth
  /\ account.healthScore < 100
  /\ t - account.rateLimitResetTime >= config.healthRefreshCooldownMinutes
  /\ account.rateLimitResetTime <= t

RefreshUpdates(account) ==
  [ healthScore |-> RefreshScore(account.healthScore), consecutiveFailures |-> 0 ]

RECURSIVE Repeat(_, _)
Repeat(steps, n) == IF n = 0 THEN << >> ELSE steps \o Repeat(steps, n - 1)

\* refreshHealthScores: loadConfig and the indices its loop will update
refreshHealthScores(p) ==
  /\ Section(p, "rf_load")
  /\ IF ~Readable THEN Throw(p, "ZodError")
     ELSE LET todo == SelectSeq(IndexSeq(Len(file.accounts)),
                                LAMBDA i : shouldRefresh(file, file.accounts[i + 1], now))
          IN  Goto(p, Repeat(<< "rf_up", "save" >>, Len(todo)),
                   [ reg[p] EXCEPT !.config = file, !.decidedAt = now,
                                   !.availableIndices = todo, !.refreshed = Len(todo) ])
  /\ UNCHANGED << file, exists, now, currentAccountIndex, ops, limit, doc0 >>

\* one iteration of the loop: updateAccount(i, ...) up to its saveConfig
refreshAccount(p) ==
  /\ Section(p, "rf_up")
  /\ LET i == Head(reg[p].availableIndices)
         updates == RefreshUpdates(reg[p].config.accounts[i + 1])
     IN  IF ~Readable THEN Throw(p, "ZodError")
         ELSE IF InvalidIndex(i, file.accounts) THEN Throw(p, "InvalidIndex")
         ELSE Goto(p, Tail(pc[p]),
                   [ reg[p] EXCEPT !.index = i, !.updates = updates,
                                   !.availableIndices = Tail(reg[p].availableIndices),
                                   !.loaded = WithAccount(file, i, updates) ])
  /\ UNCHANGED << file, exists, now, currentAccountIndex, ops, limit, doc0 >>

\* ------------------------------------------------ the fetch interceptor
\* currentAccountIndex = nextAccount.index
setCurrentAccountIndex(p) ==
  /\ At(p, "ic_set")
  /\ currentAccountIndex' = reg[p].index
  /\ Goto(p, Tail(pc[p]), reg[p])
  /\ UNCHANGED << file, exists, lock, now, ops, limit, doc0 >>

\* accountManager.listKeys() for the toast, then requestStartTime = Date.now()
listKeys(p) ==
  /\ Section(p, "ic_list")
  /\ IF ~Readable THEN Throw(p, "ZodError")
     ELSE Goto(p, Tail(pc[p]), [ reg[p] EXCEPT !.startedAt = now ])
  /\ UNCHANGED << file, exists, now, currentAccountIndex, ops, limit, doc0 >>

Outcomes == { "success", "rate-limited", "failure", "billing", "other", "network-error" }

\* originalFetch returns or throws; the outcome is reported for currentAccountIndex
originalFetch(p, outcome) ==
  /\ At(p, "ic_fetch")
  /\ LET r == [ reg[p] EXCEPT !.index = currentAccountIndex, !.outcome = outcome,
                               !.responseTime = now - reg[p].startedAt ]
     IN  CASE outcome = "other" -> Goto(p, << >>, r)
           [] outcome = "network-error" ->
                Goto(p, ReportSteps, [ r EXCEPT !.outcome = "failure", !.error = "NetworkError" ])
           [] outcome = "billing" -> Goto(p, ReportSteps, [ r EXCEPT !.try = "inner" ])
           [] OTHER -> Goto(p, ReportSteps, [ r EXCEPT !.try = "outer" ])
  /\ UNCHANGED << file, exists, lock, now, currentAccountIndex, ops, limit, doc0 >>

\* ------------------------------------------------------- callers' entries
Begin(p, steps, r) ==
  /\ ops < limit
  /\ ops' = ops + 1
  /\ pc' = [ pc EXCEPT ![p] = steps ]
  /\ reg' = [ reg EXCEPT ![p] = [ r EXCEPT !.status = "running" ] ]
  /\ UNCHANGED << file, exists, lock, now, currentAccountIndex, limit, doc0 >>

\* manager.getNextAccount(forceRotation); rotateToNext is forceRotation = true
StartSelect(p, forceRotation) ==
  /\ Idle(p)
  /\ Begin(p, << "gn_load" >>, [ BlankReg EXCEPT !.op = "select", !.force = forceRotation ])

\* an intercepted request to api.kimi.com
StartFetch(p) ==
  /\ Idle(p)
  /\ Begin(p, << "gn_load", "ic_set", "ic_list", "ic_fetch" >>, [ BlankReg EXCEPT !.op = "fetch" ])

\* manager.markAccountSuccess / RateLimited / BillingLimited / Failure (index)
StartReport(p, outcome, index) ==
  /\ Idle(p)
  /\ Begin(p, ReportSteps,
        [ BlankReg EXCEPT !.op = "report", !.outcome = outcome, !.index = index ])

\* storage.init()
StartInit(p) ==
  /\ Idle(p)
  /\ Begin(p, << "in_access" >>, [ BlankReg EXCEPT !.op = "init" ])

\* manager.markAccountSuccess(index, responseTime)
StartReportTimed(p, index, responseTime) ==
  /\ Idle(p)
  /\ Begin(p, ReportSteps,
        [ BlankReg EXCEPT !.op = "report", !.outcome = "success", !.index = index,
                          !.responseTime = responseTime ])

\* manager.markAccountRateLimited(index, retryAfterMs)
StartReportRateLimited(p, index, retryAfterMs) ==
  /\ Idle(p)
  /\ Begin(p, ReportSteps,
        [ BlankReg EXCEPT !.op = "report", !.outcome = "rate-limited", !.index = index,
                          !.retryAfterMs = retryAfterMs ])

\* manager.listKeys()
StartListKeys(p) ==
  /\ Idle(p)
  /\ Begin(p, << "ic_list" >>, [ BlankReg EXCEPT !.op = "listKeys" ])

StartAdd(p, key) ==
  /\ Idle(p)
  /\ Begin(p, << "add_load", "save" >>, [ BlankReg EXCEPT !.op = "addAccount", !.key = key ])

StartRemove(p, index) ==
  /\ Idle(p)
  /\ Begin(p, << "rm_load", "save" >>, [ BlankReg EXCEPT !.op = "removeAccount", !.index = index ])

StartSetActive(p, index) ==
  /\ Idle(p)
  /\ Begin(p, SetActiveSteps, [ BlankReg EXCEPT !.op = "setActiveIndex", !.index = index ])

\* manager.markAccountUsed(index)
StartMarkUsed(p, index) ==
  /\ Idle(p)
  /\ Begin(p, MarkUsedSteps,
        [ BlankReg EXCEPT !.op = "markAccountUsed", !.index = index, !.usedAt = now ])

\* storage.saveConfig(config)
StartSave(p, config) ==
  /\ Idle(p)
  /\ Begin(p, << "save" >>,
        [ BlankReg EXCEPT !.op = "saveConfig", !.loaded = config, !.config = config ])

StartUpdate(p, index, updates) ==
  /\ Idle(p)
  /\ Begin(p, << "up_load", "save" >>,
        [ BlankReg EXCEPT !.op = "updateAccount", !.index = index, !.updates = updates ])

StartGetAndIncrement(p, availableIndices) ==
  /\ Idle(p)
  /\ Begin(p, << "gai" >>,
        [ BlankReg EXCEPT !.op = "getAndIncrementActiveIndex",
                          !.availableIndices = availableIndices ])

StartRefresh(p) ==
  /\ Idle(p)
  /\ Begin(p, << "rf_load" >>, [ BlankReg EXCEPT !.op = "refreshHealthScores" ])

Tick ==
  /\ now < MaxTime
  /\ now' = now + 1
  /\ UNCHANGED << file, exists, lock, pc, reg, currentAccountIndex, ops, limit, doc0 >>

\* ---------------------------------------------------------- initial states
KeySeq == << "k1", "k2", "k3", "k4" >>

\* accounts as the operations leave them: new, after one rate-limit report,
\* after one billing-limit report, after four failures, after a rate limit
\* that has expired, at health 0, just below 100, and at the health floor
Profile(key, kind) ==
  LET a == NewAccount(key, StartTime - MinutesPerHour)
  IN  CASE kind = "fresh" -> a
        [] kind = "rate" -> [ a EXCEPT !.healthScore = 85, !.consecutiveFailures = 1,
                                        !.rateLimitResetTime = StartTime + 1 ]
        [] kind = "bill" -> [ a EXCEPT !.healthScore = 70, !.consecutiveFailures = 1,
                                        !.billingLimitResetTime = NextMidnight(StartTime - 1) ]
        [] kind = "weak" -> [ a EXCEPT !.healthScore = 20, !.consecutiveFailures = 4 ]
        [] kind = "past" -> [ a EXCEPT !.healthScore = 85, !.consecutiveFailures = 1,
                                        !.rateLimitResetTime = StartTime - 1 ]
        [] kind = "dead" -> [ a EXCEPT !.healthScore = 0, !.consecutiveFailures = 5 ]
        [] kind = "near" -> [ a EXCEPT !.healthScore = 98 ]
        [] OTHER -> [ a EXCEPT !.healthScore = 30, !.consecutiveFailures = 1 ]

AccountLists(n, kinds) ==
  { [ i \in 1..n |-> Profile(KeySeq[i], f[i]) ] : f \in [ 1..n -> kinds ] }

Docs(sizes, kinds, strategies) ==
  UNION { { [ DEFAULT_CONFIG EXCEPT !.accounts = accounts, !.activeIndex = a,
                                    !.rotationStrategy = s ] :
              accounts \in AccountLists(n, kinds),
              a \in 0..Max(0, n - 1),
              s \in strategies } : n \in sizes }

InitFrom(docs, maxOps) ==
  /\ file \in docs
  /\ doc0 = file
  /\ exists = TRUE
  /\ lock = NoProc
  /\ now = StartTime
  /\ pc = [ p \in Procs |-> << >> ]
  /\ reg = [ p \in Procs |-> BlankReg ]
  /\ currentAccountIndex = 0
  /\ ops = 0
  /\ limit = maxOps

\* the non-empty ascending index lists over 0..n-1
Ascending(n) ==
  { SelectSeq(IndexSeq(n), LAMBDA i : i \in S) : S \in (SUBSET (0..(n - 1))) \ { {} } }

Finished(p, op) == Idle(p) /\ reg[p].op = op /\ reg[p].status = "ok"

\* ------------------------------------------------------------------------
\* SpecGAI: every caller invokes the store's getAndIncrementActiveIndex once,
\* concurrently, from the same document.
InitGAI == InitFrom(Docs(2..MaxAccounts, { "fresh" }, { "round-robin" }), NumProcs)

CallGetAndIncrement(p, availableIndices) ==
  /\ reg[p].status = "idle"
  /\ StartGetAndIncrement(p, availableIndices)

NextGAI ==
  \/ \E p \in Procs : \E availableIndices \in Ascending(Len(file.accounts)) :
       CallGetAndIncrement(p, availableIndices)
  \/ \E p \in Procs : acquireLock(p)
  \/ \E p \in Procs : LockTimeout(p)
  \/ \E p \in Procs : getAndIncrementActiveIndex(p)

SpecGAI == InitGAI /\ [][NextGAI]_vars

Callers == { p \in Procs : reg[p].status # "idle" }

\* the callers so far gave the same candidates, at least as many as callers
SameCandidates ==
  /\ \A p, q \in Callers : reg[p].availableIndices = reg[q].availableIndices
  /\ \A p \in Callers : Cardinality(Callers) <= Len(reg[p].availableIndices)

\* C1: N concurrent getAndIncrementActiveIndex calls with the same candidate
\* list, N <= number of candidates, return pairwise distinct indices.
C1_DistinctClaims ==
  SameCandidates =>
    \A p, q \in Procs :
      ( /\ p # q
        /\ Finished(p, "getAndIncrementActiveIndex")
        /\ Finished(q, "getAndIncrementActiveIndex") )
      => reg[p].index # reg[q].index

\* all callers have returned, after contending for the lock, from one candidate list
C1_Witness ==
  /\ SameCandidates
  /\ Callers = Procs
  /\ \A p \in Procs : Finished(p, "getAndIncrementActiveIndex")

\* ------------------------------------------------------------------------
\* Spec: the store's operations and selectAccount under concurrent callers.
UpdateChoices == { [ healthScore |-> 50 ], [ consecutiveFailures |-> 7 ] }

Init == InitFrom(Docs({ 2 }, { "fresh" }, Strategies), MaxOps)

Next ==
  \/ \E p \in Procs, forceRotation \in BOOLEAN : StartSelect(p, forceRotation)
  \/ \E p \in Procs, key \in { "k1", "k3" } : StartAdd(p, key)
  \/ \E p \in Procs, index \in 0..2 : StartRemove(p, index)
  \/ \E p \in Procs, index \in 0..2 : StartSetActive(p, index)
  \/ \E p \in Procs, index \in 0..2, updates \in UpdateChoices : StartUpdate(p, index, updates)
  \/ \E p \in Procs : acquireLock(p)
  \/ \E p \in Procs : LockTimeout(p)
  \/ \E p \in Procs : saveConfig(p)
  \/ \E p \in Procs : addAccount(p)
  \/ \E p \in Procs : removeAccount(p)
  \/ \E p \in Procs : setActiveIndex(p)
  \/ \E p \in Procs : updateAccount(p)
  \/ \E p \in Procs : getAndIncrementActiveIndex(p)
  \/ \E p \in Procs : getNextAccount(p)
  \/ \E p \in Procs : markAccountUsed(p)

Spec == Init /\ [][Next]_vars

\* C2: whenever the persisted account list is non-empty,
\* 0 <= activeIndex < len(accounts).
C2_ActiveIndexInRange ==
  Len(file.accounts) > 0 =>
    (file.activeIndex >= 0 /\ file.activeIndex < Len(file.accounts))

Applied(p) ==
  /\ ~InvalidIndex(reg[p].index, file.accounts)
  /\ \A f \in DOMAIN reg[p].updates :
       file.accounts[reg[p].index + 1][f] = reg[p].updates[f]

\* C3: after two concurrent updateAccount calls on two different indices have
\* both returned successfully, the persisted document contains both updates.
C3_NoLostUpdate ==
  \A p, q \in Procs :
    ( /\ p # q
      /\ ops = 2
      /\ Finished(p, "updateAccount")
      /\ Finished(q, "updateAccount")
      /\ reg[p].index # reg[q].index )
    => (Applied(p) /\ Applied(q))

\* C4: in every persisted state no two accounts have the same key.
C4_UniqueKeys ==
  \A i, j \in 1..Len(file.accounts) :
    i # j => file.accounts[i].key # file.accounts[j].key

\* two concurrent addAccount calls with one key have both returned
C4_Witness ==
  \E p, q \in Procs :
    /\ p # q
    /\ Finished(p, "addAccount")
    /\ Finished(q, "addAccount")
    /\ reg[p].key = reg[q].key
    /\ HasKey(file.accounts, reg[p].key)

\* ------------------------------------------------------------------------
\* SpecRR: one caller, successive selectAccount calls under round-robin with
\* every account available.
Caller == CHOOSE p \in Procs : TRUE

InitRR ==
  InitFrom(Docs(2..MaxAccounts, { "fresh", "past", "edge" }, { "round-robin" }), MaxSelects)

NextRR ==
  \/ \E forceRotation \in BOOLEAN : StartSelect(Caller, forceRotation)
  \/ acquireLock(Caller)
  \/ getNextAccount(Caller)
  \/ getAndIncrementActiveIndex(Caller)
  \/ markAccountUsed(Caller)
  \/ updateAccount(Caller)
  \/ saveConfig(Caller)
  \/ Tick

SpecRR == InitRR /\ [][NextRR]_vars

\* C5: under round-robin with all accounts available, the k-th successive
\* selectAccount call returns index (a + k) mod n, a the activeIndex before the
\* first call, and activeIndex equals the returned index after the call.
C5_RoundRobinOrder ==
  (Idle(Caller) /\ ops >= 1) =>
    /\ reg[Caller].status = "ok"
    /\ reg[Caller].reason = "round-robin"
    /\ reg[Caller].index = (doc0.activeIndex + ops) % Len(doc0.accounts)
    /\ file.activeIndex = reg[Caller].index

\* [A,B,C] from activeIndex 0: the fourth call of 1,2,0,1 has returned
C5_Witness ==
  /\ Idle(Caller)
  /\ ops = 4
  /\ Len(doc0.accounts) = 3
  /\ doc0.activeIndex = 0
  /\ reg[Caller].index = 1
  /\ file.activeIndex = 1

\* ------------------------------------------------------------------------
\* SpecSeq: one caller; selectAccount, rotateToNext and intercepted requests
\* one after the other, from documents whose accounts are new, rate-limited,
\* billing-limited, below the health floor or past a rate limit.
InitSeq ==
  InitFrom(Docs({ 2 }, { "fresh", "rate", "bill", "weak", "past" }, Strategies)
             \cup Docs({ 3 }, { "fresh", "weak" }, Strategies),
           MaxSeqOps)

NextSeq ==
  \/ \E forceRotation \in BOOLEAN : StartSelect(Caller, forceRotation)
  \/ StartFetch(Caller)
  \/ acquireLock(Caller)
  \/ getNextAccount(Caller)
  \/ getAndIncrementActiveIndex(Caller)
  \/ setActiveIndex(Caller)
  \/ markAccountUsed(Caller)
  \/ markAccountOutcome(Caller)
  \/ updateAccount(Caller)
  \/ saveConfig(Caller)
  \/ setCurrentAccountIndex(Caller)
  \/ listKeys(Caller)
  \/ \E outcome \in Outcomes : originalFetch(Caller, outcome)
  \/ Tick

SpecSeq == InitSeq /\ [][NextSeq]_vars

\* the document and the time a finished selectAccount call decided on
Chosen(p) == reg[p].config.accounts[reg[p].index + 1]

Selected(p) ==
  /\ Finished(p, "select")
  /\ Len(reg[p].config.accounts) >= 2

Available(account, t) ==
  ~isRateLimited(account, t) /\ account.healthScore >= minHealthScore

OtherAvailable(p) ==
  \E j \in 0..(Len(reg[p].config.accounts) - 1) :
    /\ j # reg[p].index
    /\ Available(reg[p].config.accounts[j + 1], reg[p].decidedAt)

\* C6: with two or more accounts, selectAccount does not return a rate- or
\* billing-limited account while another account is available.
C6_AvoidsLimited ==
  \A p \in Procs :
    (Selected(p) /\ OtherAvailable(p)) => ~isRateLimited(Chosen(p), reg[p].decidedAt)

StickyKeepOrFallback(p) ==
  /\ reg[p].config.rotationStrategy = "sticky"
  /\ reg[p].reason \in { "sticky", "all-rate-limited" }

C8_FirstHitUnconfirmed ==
  ( /\ ops = 1
    /\ Finished(Caller, "fetch")
    /\ reg[Caller].outcome = "billing"
    /\ doc0.accounts[reg[Caller].index + 1].consecutiveBillingLimitHits = 0
    /\ doc0.accounts[reg[Caller].index + 1].billingLimitResetTime = 0 )
  => /\ file.accounts[reg[Caller].index + 1].billingLimitResetTime = 0
     /\ file.accounts[reg[Caller].index + 1].healthScore
          = doc0.accounts[reg[Caller].index + 1].healthScore

\* C9: for every account successfulRequests <= totalRequests.
C9_SuccessWithinTotal ==
  \A i \in 1..Len(file.accounts) :
    file.accounts[i].successfulRequests <= file.accounts[i].totalRequests

\* ------------------------------------------------------------------------
\* SpecReport: concurrent callers report outcomes (success, rate limit,
\* billing limit, failure) and run refreshHealthScores, from documents whose
\* accounts are new, at health 0, or just below 100.
InitReport ==
  InitFrom(Docs({ 2 }, { "fresh", "dead", "near" }, { "health-based" }), MaxOps)

ReportedOutcomes == { "success", "rate-limited", "billing", "failure" }

NextReport ==
  \/ \E p \in Procs, outcome \in ReportedOutcomes, index \in 0..1 :
       StartReport(p, outcome, index)
  \/ \E p \in Procs : StartRefresh(p)
  \/ \E p \in Procs : acquireLock(p)
  \/ \E p \in Procs : LockTimeout(p)
  \/ \E p \in Procs : markAccountOutcome(p)
  \/ \E p \in Procs : refreshHealthScores(p)
  \/ \E p \in Procs : refreshAccount(p)
  \/ \E p \in Procs : updateAccount(p)
  \/ \E p \in Procs : saveConfig(p)

SpecReport == InitReport /\ [][NextReport]_vars

InRange(h) == 0 <= h /\ h <= 100

\* the health score a report or a refresh has computed and not yet saved
Computed(p) ==
  IF pc[p] # << >> /\ "healthScore" \in DOMAIN reg[p].updates
  THEN { reg[p].updates.healthScore }
  ELSE { }

\* C10: every persisted healthScore is in [0,100], and every value the
\* reports (+2, -15, -20, -30) and refreshHealthScores (+10) compute is too.
C10_HealthInRange ==
  /\ \A i \in 1..Len(file.accounts) : InRange(file.accounts[i].healthScore)
  /\ \A p \in Procs : \A h \in Computed(p) : InRange(h)

\* a failure reported for an account at health 0 was saved and left it at 0,
\* and a success or refresh on an account at 98 was saved and left it at 100
C10_Witness ==
  \E p \in Procs, q \in Procs :
    /\ Finished(p, "report") /\ reg[p].outcome = "failure"
    /\ doc0.accounts[reg[p].index + 1].healthScore = 0
    /\ file.accounts[reg[p].index + 1].healthScore = 0
    /\ file.accounts[reg[p].index + 1].consecutiveFailures
         = doc0.accounts[reg[p].index + 1].consecutiveFailures + 1
    /\ Idle(q) /\ reg[q].status = "ok"
    /\ (reg[q].op = "refreshHealthScores" \/ reg[q].outcome = "success")
    /\ \E j \in 1..Len(file.accounts) :
         /\ doc0.accounts[j].healthScore = 98
         /\ file.accounts[j].healthScore = 100

\* ------------------------------------------------------------------------
\* SpecInit: callers run init and addAccount concurrently, from a config
\* directory without the accounts file or with a file holding one account.
InitInit ==
  /\ \/ /\ exists = FALSE
        /\ file = DEFAULT_CONFIG
     \/ /\ exists = TRUE
        /\ file \in Docs({ 0, 1 }, { "fresh" }, { "health-based" })
  /\ doc0 = file
  /\ lock = NoProc
  /\ now = StartTime
  /\ pc = [ p \in Procs |-> << >> ]
  /\ reg = [ p \in Procs |-> BlankReg ]
  /\ currentAccountIndex = 0
  /\ ops = 0
  /\ limit = MaxOps

NextInit ==
  \/ \E p \in Procs : StartInit(p)
  \/ \E p \in Procs, key \in { "k1", "k3" } : StartAdd(p, key)
  \/ \E p \in Procs : acquireLock(p)
  \/ \E p \in Procs : LockTimeout(p)
  \/ \E p \in Procs : init(p)
  \/ \E p \in Procs : addAccount(p)
  \/ \E p \in Procs : saveConfig(p)

SpecInit == InitInit /\ [][NextInit]_vars

\* C11: once an init call and another caller's addAccount have both
\* returned, the added account is in the persisted document.
C11_InitKeepsAdded ==
  \A p \in Procs, q \in Procs :
    (Finished(p, "init") /\ Finished(q, "addAccount"))
      => HasKey(file.accounts, reg[q].key)

\* ------------------------------------------------------------------------
\* SpecClaim: one caller selects under sticky or health-based while another
\* reports an outcome.
InitClaim ==
  InitFrom(Docs({ 2 }, { "fresh", "weak", "rate" }, { "sticky", "health-based" }), MaxOps)

NextClaim ==
  \/ \E p \in Procs, forceRotation \in BOOLEAN : StartSelect(p, forceRotation)
  \/ \E p \in Procs, outcome \in { "success", "failure" }, index \in 0..1 :
       StartReport(p, outcome, index)
  \/ \E p \in Procs : acquireLock(p)
  \/ \E p \in Procs : LockTimeout(p)
  \/ \E p \in Procs : getNextAccount(p)
  \/ \E p \in Procs : setActiveIndex(p)
  \/ \E p \in Procs : markAccountUsed(p)
  \/ \E p \in Procs : markAccountOutcome(p)
  \/ \E p \in Procs : updateAccount(p)
  \/ \E p \in Procs : saveConfig(p)

SpecClaim == InitClaim /\ [][NextClaim]_vars

\* the selector's write of its claim: the saveConfig of storage.setActiveIndex,
\* which markAccountUsed follows
ClaimWrite(p) ==
  /\ reg[p].op = "select"
  /\ At(p, "save")
  /\ Len(pc[p]) > 1
  /\ pc'[p] = Tail(pc[p])

\* C12: the selector's write of its claimed index leaves every account as the
\* persisted document had it just before the write, so an update committed
\* since the selector's read is still there.
C12_ClaimKeepsUpdates ==
  [][ \A p \in Procs : ClaimWrite(p) => file'.accounts = file.accounts ]_vars

\* ------------------------------------------------------------------------
\* the callers whose reportFailure(index) has returned
FailureReporters(index) ==
  { p \in Procs : Finished(p, "report") /\ reg[p].outcome = "failure"
                                        /\ reg[p].index = index }

\* C13 (SpecReport): when the only operations run are k concurrent
\* reportFailure calls on one account and all have returned, the account has
\* healthScore = max(0, h - 20k) and consecutiveFailures = c + k.
C13_FailuresAccumulate ==
  \A index \in 0..(Len(doc0.accounts) - 1) :
    LET k == Cardinality(FailureReporters(index))
    IN  (k >= 1 /\ ops = k /\ \A p \in Procs : Idle(p))
          => /\ file.accounts[index + 1].healthScore
                  = Max(0, doc0.accounts[index + 1].healthScore - 20 * k)
             /\ file.accounts[index + 1].consecutiveFailures
                  = doc0.accounts[index + 1].consecutiveFailures + k

\* ------------------------------------------------------------------------
\* SpecTerm: store operations under contention, lock attempts counted, the
\* accounts file removable at any moment; every caller keeps taking steps.
InitTerm ==
  InitFrom(Docs({ 1, 2 }, { "fresh" }, { "health-based" }), MaxOps)

Step(p) ==
  \/ acquireLock(p)
  \/ lockRetry(p)
  \/ lockGiveUp(p)
  \/ loadConfigENOENT(p)
  \/ init(p)
  \/ addAccount(p)
  \/ setActiveIndex(p)
  \/ getAndIncrementActiveIndex(p)
  \/ saveConfig(p)

NextTerm ==
  \/ \E p \in Procs : StartInit(p)
  \/ \E p \in Procs : StartAdd(p, "k3")
  \/ \E p \in Procs, index \in 0..1 : StartSetActive(p, index)
  \/ \E p \in Procs : StartGetAndIncrement(p, << 0 >>)
  \/ \E p \in Procs : Step(p)
  \/ unlink

SpecTerm == InitTerm /\ [][NextTerm]_vars /\ \A p \in Procs : WF_vars(Step(p))

\* C14: every store operation that has started returns or throws.
C14_Terminates == \A p \in Procs : (~Idle(p)) ~> Idle(p)

\* an operation ended with the lock error after exhausting its retries in the
\* saveConfig of loadConfig's ENOENT branch, and the lock is free again
C14_Witness ==
  \E p \in Procs :
    /\ Idle(p)
    /\ reg[p].status = "error"
    /\ reg[p].error = "LockTimeout"
    /\ reg[p].reason = "ENOENT"
    /\ reg[p].attempts = LOCK_RETRIES
    /\ lock = NoProc

\* ------------------------------------------------------------------------
\* SpecErr: one caller, one operation: an outcome report, markAccountUsed,
\* updateAccount, removeAccount or setActiveIndex with an index inside or
\* outside the list, addAccount with a stored or a new key, or saveConfig
\* with a valid or an invalid document; from stores of 0, 1 and 2 accounts.
InitErr ==
  InitFrom(Docs({ 0, 1, 2 }, { "fresh", "weak" }, { "health-based" }), MaxErrOps)

Indices == (0 - 1)..MaxAccounts

\* documents handed to saveConfig: one valid, the others each breaking one
\* constraint of the schema
SaveChoices(c) ==
  LET extra(key, h) == [ NewAccount(key, now) EXCEPT !.healthScore = h ]
  IN  { [ c EXCEPT !.rotationStrategy = "round-robin" ],
        [ c EXCEPT !.accounts = Append(c.accounts, extra("k4", 50)) ],
        [ c EXCEPT !.accounts = Append(c.accounts, extra("k4", 101)) ],
        [ c EXCEPT !.accounts = Append(c.accounts, extra("k4", 0 - 1)) ],
        [ c EXCEPT !.accounts = Append(c.accounts, extra("", 100)) ],
        [ c EXCEPT !.healthRefreshCooldownMinutes = 0 ],
        [ c EXCEPT !.healthRefreshCooldownMinutes = 1441 ],
        [ c EXCEPT !.rotationStrategy = "random" ] }

NextErr ==
  \/ \E outcome \in ReportedOutcomes, index \in Indices : StartReport(Caller, outcome, index)
  \/ \E index \in Indices : StartMarkUsed(Caller, index)
  \/ \E index \in Indices, updates \in UpdateChoices : StartUpdate(Caller, index, updates)
  \/ \E index \in Indices : StartRemove(Caller, index)
  \/ \E index \in Indices : StartSetActive(Caller, index)
  \/ \E key \in { "k1", "k2", "k3" } : StartAdd(Caller, key)
  \/ \E config \in SaveChoices(file) : StartSave(Caller, config)
  \/ acquireLock(Caller)
  \/ markAccountOutcome(Caller)
  \/ markAccountUsed(Caller)
  \/ updateAccount(Caller)
  \/ removeAccount(Caller)
  \/ setActiveIndex(Caller)
  \/ addAccount(Caller)
  \/ saveConfig(Caller)

SpecErr == InitErr /\ [][NextErr]_vars

\* the one operation of the run is over
Done(p) == Idle(p) /\ ops = 1 /\ reg[p].status # "idle"

IndexOps ==
  { "report", "markAccountUsed", "updateAccount", "removeAccount", "setActiveIndex" }

OutOfRange(p) == reg[p].index < 0 \/ reg[p].index > Len(doc0.accounts) - 1

\* C15: an operation that addresses an account by an index outside
\* [0, len(accounts)-1] fails with the invalid-index error and leaves the
\* persisted document unchanged.
C15_InvalidIndexRejected ==
  \A p \in Procs :
    (Done(p) /\ reg[p].op \in IndexOps /\ OutOfRange(p))
      => /\ reg[p].status = "error"
         /\ reg[p].error = "InvalidIndex"
         /\ file = doc0

\* setActiveIndex(len(accounts)) on a non-empty store was rejected
C15_Witness ==
  /\ Done(Caller)
  /\ reg[Caller].op = "setActiveIndex"
  /\ Len(doc0.accounts) > 0
  /\ reg[Caller].index = Len(doc0.accounts)
  /\ reg[Caller].error = "InvalidIndex"
  /\ file = doc0

KeyStored(c, key) == \E i \in 1..Len(c.accounts) : c.accounts[i].key = key

\* C16: addAccount with a key already in the store fails with the
\* duplicate-key error and leaves the persisted document unchanged.
C16_DuplicateRejected ==
  \A p \in Procs :
    (Done(p) /\ reg[p].op = "addAccount" /\ KeyStored(doc0, reg[p].key))
      => /\ reg[p].status = "error"
         /\ reg[p].error = "DuplicateKey"
         /\ file = doc0

\* addAccount with the key of the second of two accounts was rejected
C16_Witness ==
  /\ Done(Caller)
  /\ reg[Caller].op = "addAccount"
  /\ Len(doc0.accounts) = 2
  /\ reg[Caller].key = doc0.accounts[2].key
  /\ reg[Caller].error = "DuplicateKey"
  /\ file = doc0

\* the constraints the claim lists, read off the document
BreaksConstraint(c) ==
  \/ \E i \in 1..Len(c.accounts) :
       \/ c.accounts[i].healthScore < 0
       \/ c.accounts[i].healthScore > 100
       \/ c.accounts[i].key = ""
  \/ c.healthRefreshCooldownMinutes < 1
  \/ c.healthRefreshCooldownMinutes > 1440
  \/ c.rotationStrategy \notin { "round-robin", "health-based", "sticky" }

\* C17: saveConfig of a document that breaks a schema constraint fails with
\* the validation error, leaves the persisted document unchanged and releases
\* the lock.
C17_InvalidNotSaved ==
  \A p \in Procs :
    (Done(p) /\ reg[p].op = "saveConfig" /\ BreaksConstraint(reg[p].config))
      => /\ reg[p].status = "error"
         /\ reg[p].error = "ZodError"
         /\ file = doc0
         /\ lock = NoProc

\* a document with a healthScore of 101 was rejected, with the lock released
C17_Witness ==
  /\ Done(Caller)
  /\ reg[Caller].op = "saveConfig"
  /\ \E i \in 1..Len(reg[Caller].config.accounts) :
       reg[Caller].config.accounts[i].healthScore = 101
  /\ reg[Caller].error = "ZodError"
  /\ file = doc0
  /\ lock = NoProc

\* ------------------------------------------------------------------------
\* SpecRefresh: one caller runs refreshHealthScores again and again while
\* time passes, with auto-refresh on or off and a cooldown of 1 or 30
\* minutes; nothing else touches the store.
InitRefresh ==
  InitFrom({ [ d EXCEPT !.autoRefreshHealth = auto, !.healthRefreshCooldownMinutes = cooldown ] :
               d \in Docs({ 2 }, { "fresh", "dead", "weak", "past", "rate", "bill" },
                          { "health-based" }),
               auto \in BOOLEAN, cooldown \in { 1, 30 } },
           MaxRefreshes)

RefreshStep ==
  \/ StartRefresh(Caller)
  \/ acquireLock(Caller)
  \/ refreshHealthScores(Caller)
  \/ refreshAccount(Caller)
  \/ saveConfig(Caller)

NextRefresh == RefreshStep \/ Tick

SpecRefresh == InitRefresh /\ [][NextRefresh]_vars /\ WF_vars(RefreshStep)

\* C18: with autoRefreshHealth false, refreshHealthScores changes no
\* healthScore and no consecutiveFailures and returns refreshed = 0.
C18_DisabledRefreshIsNoOp ==
  (~doc0.autoRefreshHealth)
    => /\ \A i \in 1..Len(file.accounts) :
            /\ file.accounts[i].healthScore = doc0.accounts[i].healthScore
            /\ file.accounts[i].consecutiveFailures = doc0.accounts[i].consecutiveFailures
       /\ \A p \in Procs : reg[p].op = "refreshHealthScores" => reg[p].refreshed = 0

\* refreshHealthScores has returned, auto-refresh off, on a store holding an
\* account below 100 whose rate limit has long expired
C18_Witness ==
  /\ ~doc0.autoRefreshHealth
  /\ Finished(Caller, "refreshHealthScores")
  /\ \E i \in 1..Len(doc0.accounts) :
       /\ doc0.accounts[i].healthScore < 100
       /\ doc0.accounts[i].rateLimitResetTime + doc0.healthRefreshCooldownMinutes <= StartTime

\* the accounts the claim is about: below 100, rate limit at least the
\* cooldown in the past when the run starts
Recovering(i) ==
  /\ doc0.autoRefreshHealth
  /\ doc0.accounts[i].healthScore < 100
  /\ doc0.accounts[i].rateLimitResetTime + doc0.healthRefreshCooldownMinutes <= StartTime

\* the number of refreshHealthScores calls that have returned
Calls == IF Idle(Caller) THEN ops ELSE ops - 1

InitAvail == InitFrom(Docs({ 2 }, { "fresh" }, { "round-robin" }), MaxReports)

NextAvail ==
  \/ \E outcome \in { "rate-limited", "success" }, index \in 0..1 :
       StartReport(Caller, outcome, index)
  \/ acquireLock(Caller)
  \/ markAccountOutcome(Caller)
  \/ updateAccount(Caller)
  \/ saveConfig(Caller)
  \/ Tick

SpecAvail == InitAvail /\ [][NextAvail]_vars

AvailableNow == { getAvailableIndices(file, now)[j] : j \in 1..Len(getAvailableIndices(file, now)) }

ResetPassed(account) ==
  now >= account.rateLimitResetTime /\ now >= account.billingLimitResetTime

FirstSelect(p) == Selected(p) /\ ops = 1

\* the indices of doc0 available when the call decided
Available0(p) ==
  { j \in 0..(Len(doc0.accounts) - 1) : Available(doc0.accounts[j + 1], reg[p].decidedAt) }

\* C21 (SpecSeq): rotateToNext with at least two available accounts returns
\* an index different from the activeIndex held before the call, and
\* activeIndex equals the returned index afterwards.
C21_RotateMovesOn ==
  \A p \in Procs :
    (FirstSelect(p) /\ reg[p].force /\ Cardinality(Available0(p)) >= 2)
      => /\ reg[p].index # doc0.activeIndex
         /\ file.activeIndex = reg[p].index

\* ------------------------------------------------------------------------
\* SpecWindow: one caller reports successes with a response time for two
\* accounts whose responseTimes hold 0, 99 or 100 entries.
Ramp(n) == [ j \in 1..n |-> j ]

InitWindow ==
  InitFrom({ [ d EXCEPT !.accounts =
                 [ i \in 1..2 |-> [ d.accounts[i] EXCEPT !.responseTimes = w[i] ] ] ] :
               d \in Docs({ 2 }, { "fresh" }, { "health-based" }),
               w \in [ 1..2 -> { << >>, Ramp(99), Ramp(100) } ] },
           MaxSeqOps)

NextWindow ==
  \/ \E index \in 0..1, responseTime \in { 7, 1000 } :
       StartReportTimed(Caller, index, responseTime)
  \/ acquireLock(Caller)
  \/ markAccountOutcome(Caller)
  \/ updateAccount(Caller)
  \/ saveConfig(Caller)

SpecWindow == InitWindow /\ [][NextWindow]_vars

\* the window the claim describes after a report of v
WindowAfter(old, v) ==
  IF Len(old) >= 100
  THEN [ j \in 1..100 |-> IF j < 100 THEN old[Len(old) - 99 + j] ELSE v ]
  ELSE [ j \in 1..(Len(old) + 1) |-> IF j <= Len(old) THEN old[j] ELSE v ]

\* the save that ends a success report carrying a response time
TimedSave(p) ==
  /\ reg[p].op = "report"
  /\ reg[p].outcome = "success"
  /\ reg[p].responseTime # 0 - 1
  /\ pc[p] = << "save" >>
  /\ lock = p
  /\ pc'[p] = << >>

\* C22: no responseTimes list is longer than 100, and a success report with
\* response time v leaves the last 99 entries followed by v when the window
\* held 100, and the window followed by v when it held fewer.
C22_ResponseWindow ==
  /\ [](\A i \in 1..Len(file.accounts) : Len(file.accounts[i].responseTimes) <= 100)
  /\ [][ \A p \in Procs :
           TimedSave(p)
             => /\ reg'[p].status = "ok"
                /\ file'.accounts[reg[p].index + 1].responseTimes
                     = WindowAfter(file.accounts[reg[p].index + 1].responseTimes,
                                   reg[p].responseTime) ]_vars

\* a full window has lost its oldest entry and ends with the reported time
C22_Witness ==
  \E i \in 1..Len(file.accounts) :
    /\ doc0.accounts[i].responseTimes = Ramp(100)
    /\ ops = 1
    /\ Finished(Caller, "report")
    /\ Len(file.accounts[i].responseTimes) = 100
    /\ file.accounts[i].responseTimes[1] = 2
    /\ file.accounts[i].responseTimes[99] = 100
    /\ file.accounts[i].responseTimes[100] = 1000

\* ------------------------------------------------------------------------
\* SpecRemove: one caller removes an account from a store of 1, 2 or 3
\* accounts, for every position and every activeIndex.
InitRemove ==
  InitFrom(Docs({ 1, 2, 3 }, { "fresh", "weak" }, { "health-based" }), MaxErrOps)

NextRemove ==
  \/ \E index \in 0..(MaxAccounts - 1) : StartRemove(Caller, index)
  \/ acquireLock(Caller)
  \/ removeAccount(Caller)
  \/ saveConfig(Caller)

SpecRemove == InitRemove /\ [][NextRemove]_vars

\* C23: removeAccount(i) with a valid i removes exactly the account at
\* position i and keeps the order of the others; activeIndex keeps its value
\* if that is below the new length and becomes max(0, newLength - 1) otherwise.
C23_RemoveExact ==
  \A p \in Procs :
    (Done(p) /\ reg[p].op = "removeAccount" /\ ~OutOfRange(p))
      => LET i == reg[p].index
             newLength == Len(doc0.accounts) - 1
         IN  /\ reg[p].status = "ok"
             /\ Len(file.accounts) = newLength
             /\ \A j \in 1..newLength :
                  file.accounts[j] = doc0.accounts[IF j <= i THEN j ELSE j + 1]
             /\ file.activeIndex = IF doc0.activeIndex < newLength
                                   THEN doc0.activeIndex
                                   ELSE Max(0, newLength - 1)
             /\ file.rotationStrategy = doc0.rotationStrategy

\* the active account was the last of three and was removed: activeIndex 1
C23_Witness ==
  /\ Done(Caller)
  /\ reg[Caller].op = "removeAccount"
  /\ reg[Caller].status = "ok"
  /\ Len(doc0.accounts) = 3
  /\ doc0.activeIndex = 2
  /\ reg[Caller].index = 2
  /\ file.activeIndex = 1
  /\ Len(file.accounts) = 2

\* ------------------------------------------------------------------------
\* SpecScore: one selectAccount or rotateToNext call under health-based, on
\* two accounts with healthScore 100, 31, 30 or 20, last used now, an hour
\* ago or 25 hours ago, rate-limited, billing-limited or neither, and on three unlimited accounts
\* with healthScore 100 or 30, last used now or 25 hours ago.
ScoreAccounts(n, healths, rests, limits) ==
  { [ i \in 1..n |->
        [ NewAccount(KeySeq[i], StartTime - f[i][2])
            EXCEPT !.healthScore = f[i][1],
                   !.rateLimitResetTime = f[i][3][1],
                   !.billingLimitResetTime = f[i][3][2] ] ] :
      f \in [ 1..n -> healths \X rests \X limits ] }

ScoreDocs(n, healths, rests, limits) ==
  { [ DEFAULT_CONFIG EXCEPT !.accounts = accounts, !.activeIndex = a ] :
      accounts \in ScoreAccounts(n, healths, rests, limits), a \in 0..(n - 1) }

\* << rateLimitResetTime, billingLimitResetTime >>: none, or one of the two
\* ending a minute after the start
ScoreLimits == { << 0, 0 >>, << StartTime + 1, 0 >>, << 0, StartTime + 1 >> }

InitScore ==
  InitFrom(ScoreDocs(2, { 100, 31, 30, 20 }, { 0, 60, 1500 }, ScoreLimits)
             \cup ScoreDocs(3, { 100, 30 }, { 0, 1500 }, { << 0, 0 >> }),
           MaxScoreOps)

NextScore ==
  \/ \E forceRotation \in BOOLEAN : StartSelect(Caller, forceRotation)
  \/ acquireLock(Caller)
  \/ getNextAccount(Caller)
  \/ setActiveIndex(Caller)
  \/ markAccountUsed(Caller)
  \/ updateAccount(Caller)
  \/ saveConfig(Caller)
  \/ Tick

SpecScore == InitScore /\ [][NextScore]_vars

\* the score as the claim words it, in sixtieths of a point: healthScore +
\* min(20, hours since lastUsed), plus 50 for the current account
Score0(p, j) ==
  60 * doc0.accounts[j + 1].healthScore
  + Min(20 * 60, reg[p].decidedAt - doc0.accounts[j + 1].lastUsed)
  + (IF j = doc0.activeIndex THEN 50 * 60 ELSE 0)

\* account j has healthScore 100 and was last used within the hour before t
FullAndRecent(account, t) ==
  /\ account.healthScore = 100
  /\ account.lastUsed <= t
  /\ t - account.lastUsed <= 60

CurrentUnlimited0(p) ==
  /\ doc0.accounts[doc0.activeIndex + 1].rateLimitResetTime <= reg[p].decidedAt
  /\ doc0.accounts[doc0.activeIndex + 1].billingLimitResetTime <= reg[p].decidedAt

KeptByHealth0(p) ==
  /\ ~reg[p].force
  /\ CurrentUnlimited0(p)
  /\ doc0.accounts[doc0.activeIndex + 1].healthScore > 30

\* C29: under health-based with two or more accounts, selectAccount returns
\* reason health-sticky exactly when forceRotation is false, the current
\* account is neither rate- nor billing-limited and its healthScore is
\* above 30 (30 itself goes through scoring); it then returns the current
\* index and leaves activeIndex unchanged.
C29_HealthSticky ==
  \A p \in Procs :
    (FirstSelect(p) /\ doc0.rotationStrategy = "health-based")
      => /\ (reg[p].reason = "health-sticky") <=> KeptByHealth0(p)
         /\ KeptByHealth0(p)
              => /\ reg[p].index = doc0.activeIndex
                 /\ file.activeIndex = doc0.activeIndex

\* a current account with healthScore 31 was kept although the other
\* account, at 100 and rested for 25 hours, wins the scoring
C29_Witness ==
  /\ FirstSelect(Caller)
  /\ reg[Caller].reason = "health-sticky"
  /\ doc0.accounts[doc0.activeIndex + 1].healthScore = 31
  /\ \E j \in Available0(Caller) :
       /\ j # doc0.activeIndex
       /\ doc0.accounts[j + 1].healthScore = 100
       /\ doc0.accounts[j + 1].lastUsed = StartTime - 1500

\* C30: a health-based selection that goes through scoring returns an
\* available index whose score is maximal among the available accounts, the
\* lowest such index on ties, sets activeIndex to it and returns reason
\* health-based.
C30_BestScore ==
  \A p \in Procs :
    (FirstSelect(p) /\ reg[p].reason = "health-based")
      => /\ reg[p].index \in Available0(p)
         /\ \A j \in Available0(p) :
              /\ Score0(p, j) <= Score0(p, reg[p].index)
              /\ Score0(p, j) = Score0(p, reg[p].index) => j >= reg[p].index
         /\ file.activeIndex = reg[p].index

\* of three accounts the weak current one lost to the two others, which tie,
\* and the lower of the two was returned
C30_Witness ==
  /\ FirstSelect(Caller)
  /\ reg[Caller].reason = "health-based"
  /\ Len(doc0.accounts) = 3
  /\ doc0.activeIndex = 0
  /\ reg[Caller].index = 1
  /\ 2 \in Available0(Caller)
  /\ Score0(Caller, 1) = Score0(Caller, 2)
  /\ file.activeIndex = 1

\* ------------------------------------------------------------------------
\* C26 to C28 are checked under SpecSeq.

\* the members of an index list
Members(indices) == { indices[k] : k \in 1..Len(indices) }

Least(S) == CHOOSE m \in S : \A n \in S : m <= n

\* the accounts of the loaded document that are neither limited nor below
\* the health floor when the call decides
AvailableAt(p) ==
  { j \in 0..(Len(reg[p].config.accounts) - 1) :
      Available(reg[p].config.accounts[j + 1], reg[p].decidedAt) }

\* the step in which p runs getAndIncrementActiveIndex
Claims(p) ==
  /\ At(p, "gai")
  /\ lock = p
  /\ pc'[p] # pc[p]

\* the smallest candidate above activeIndex, or the smallest of all
NextCandidate(candidates, activeIndex) ==
  IF \E c \in candidates : c > activeIndex
  THEN Least({ c \in candidates : c > activeIndex })
  ELSE Least(candidates)

\* C26: getAndIncrementActiveIndex(candidates) returns the smallest candidate
\* strictly greater than activeIndex, or the smallest candidate when none is
\* greater, and sets activeIndex to it; a round-robin selection returns a
\* member of the available set.
C26_NextCandidate ==
  /\ [](\A p \in Procs :
          (Selected(p) /\ reg[p].reason = "round-robin")
            => reg[p].index \in AvailableAt(p))
  /\ [][\A p \in Procs :
          Claims(p)
            => LET expected == NextCandidate(Members(reg[p].availableIndices),
                                             file.activeIndex)
               IN  /\ reg'[p].index = expected
                   /\ file'.activeIndex = expected]_vars

\* [A,B,C] with B below the health floor, from activeIndex 0: the second
\* call of 2,0 has returned
C26_Witness ==
  /\ Selected(Caller)
  /\ ops = 2
  /\ reg[Caller].reason = "round-robin"
  /\ Len(doc0.accounts) = 3
  /\ doc0.activeIndex = 0
  /\ AvailableAt(Caller) = { 0, 2 }
  /\ reg[Caller].config.activeIndex = 2
  /\ reg[Caller].index = 0
  /\ file.activeIndex = 0

\* sticky, not forced, and the active account of the loaded document is
\* neither rate- nor billing-limited
StickyKeeps(p) ==
  /\ reg[p].config.rotationStrategy = "sticky"
  /\ ~reg[p].force
  /\ LET current == reg[p].config.accounts[reg[p].config.activeIndex + 1]
     IN  /\ current.rateLimitResetTime <= reg[p].decidedAt
         /\ current.billingLimitResetTime <= reg[p].decidedAt

StickyMoves(p) ==
  /\ reg[p].config.rotationStrategy = "sticky"
  /\ LET current == reg[p].config.accounts[reg[p].config.activeIndex + 1]
     IN  \/ reg[p].force
         \/ current.rateLimitResetTime > reg[p].decidedAt
         \/ current.billingLimitResetTime > reg[p].decidedAt

OthersAt(p) == AvailableAt(p) \ { reg[p].config.activeIndex }

\* C28: under sticky, when forceRotation is true or the active account is
\* limited, selectAccount returns the smallest available index other than
\* activeIndex with reason sticky-rotation and sets activeIndex to it; it
\* falls back to the soonest-available account with reason all-rate-limited
\* only when no account other than the current one is available.
C28_StickyRotation ==
  \A p \in Procs :
    (Selected(p) /\ StickyMoves(p))
      => IF OthersAt(p) # {}
         THEN /\ reg[p].index = Least(OthersAt(p))
              /\ reg[p].reason = "sticky-rotation"
              /\ file.activeIndex = reg[p].index
         ELSE /\ reg[p].reason = "all-rate-limited"
              /\ reg[p].index = getSoonestAvailableIndex(reg[p].config)

\* forced from activeIndex 0 of three accounts, the call passed over account
\* 1, which is below the health floor, and moved to account 2
C28_Witness ==
  /\ FirstSelect(Caller)
  /\ StickyMoves(Caller)
  /\ reg[Caller].force
  /\ doc0.activeIndex = 0
  /\ OthersAt(Caller) = { 2 }
  /\ reg[Caller].reason = "sticky-rotation"
  /\ reg[Caller].index = 2
  /\ file.activeIndex = 2

\* ------------------------------------------------------------------------
\* SpecBytes: the accounts file as text.  A JSON object is the sequence of
\* its members << name, value >> in the order they are written; a text is
\* such a value together with the indentation it was written with.  In this
\* specification `file` holds a text and reg[p].loaded a parsed object.

\* the key order of the two z.object shapes
ConfigShape ==
  << "version", "accounts", "activeIndex", "rotationStrategy", "autoRefreshHealth",
     "healthRefreshCooldownMinutes" >>

AccountShape ==
  << "key", "addedAt", "lastUsed", "rateLimitResetTime", "billingLimitResetTime",
     "healthScore", "consecutiveFailures", "consecutiveBillingLimitHits",
     "totalRequests", "successfulRequests", "responseTimes" >>

\* the key order of the object literal { ...DEFAULT_CONFIG, accounts: [] }
DefaultLiteralShape ==
  << "version", "activeIndex", "rotationStrategy", "autoRefreshHealth",
     "healthRefreshCooldownMinutes", "accounts" >>

\* the fields with a .default(...) in the schemas, and their defaults
ConfigDefaults ==
  [ version |-> 1, activeIndex |-> 0, rotationStrategy |-> "health-based",
    autoRefreshHealth |-> TRUE, healthRefreshCooldownMinutes |-> 30 ]

AccountDefaults ==
  [ rateLimitResetTime |-> 0, billingLimitResetTime |-> 0, healthScore |-> 100,
    consecutiveFailures |-> 0, consecutiveBillingLimitHits |-> 0,
    totalRequests |-> 0, successfulRequests |-> 0, responseTimes |-> << >> ]

MemberNames(object) == { object[k][1] : k \in 1..Len(object) }

Member(object, name) == object[CHOOSE k \in 1..Len(object) : object[k][1] = name][2]

\* the object with the fields of `fields` in the order `shape`, without `dropped`
ObjectOf(fields, shape, dropped) ==
  LET kept == SelectSeq(shape, LAMBDA name : name \notin dropped)
  IN  [ k \in 1..Len(kept) |-> << kept[k], fields[kept[k]] >> ]

\* JSON.stringify(value, null, space) and JSON.parse: the text keeps the
\* members in the object's order, laid out with `space`
JSONStringify(value, space) == [ space |-> space, value |-> value ]

JSONParse(text) == text.value

\* z.object(shape).parse(object): the output has the shape's keys in the
\* shape's order, a missing key with a default gets the default, keys outside
\* the shape are dropped
ZodObject(object, shape, defaults) ==
  LET kept == SelectSeq(shape, LAMBDA name :
                  name \in MemberNames(object) \/ name \in DOMAIN defaults)
  IN  [ k \in 1..Len(kept) |->
          << kept[k],
             IF kept[k] \in MemberNames(object) THEN Member(object, kept[k])
             ELSE defaults[kept[k]] >> ]

ParseAccount(object) == ZodObject(object, AccountShape, AccountDefaults)

\* KimiAccountsConfigSchema.parse(object), when it succeeds
ParseConfig(object) ==
  LET top == ZodObject(object, ConfigShape, ConfigDefaults)
  IN  [ k \in 1..Len(top) |->
          IF top[k][1] = "accounts"
          THEN << "accounts",
                  [ i \in 1..Len(top[k][2]) |-> ParseAccount(top[k][2][i]) ] >>
          ELSE top[k] ]

\* KimiAccountsConfigSchema.parse(object) succeeds: the required keys are
\* there and the constrained values are in range
ParsesAccount(object) ==
  /\ { "key", "addedAt", "lastUsed" } \subseteq MemberNames(object)
  /\ Member(object, "key") # ""
  /\ Member(ParseAccount(object), "healthScore") >= 0
  /\ Member(ParseAccount(object), "healthScore") <= 100

ParsesConfig(object) ==
  /\ "accounts" \in MemberNames(object)
  /\ \A i \in 1..Len(Member(object, "accounts")) :
       ParsesAccount(Member(object, "accounts")[i])
  /\ Member(ZodObject(object, ConfigShape, ConfigDefaults), "rotationStrategy") \in Strategies
  /\ Member(ZodObject(object, ConfigShape, ConfigDefaults), "healthRefreshCooldownMinutes") >= 1
  /\ Member(ZodObject(object, ConfigShape, ConfigDefaults), "healthRefreshCooldownMinutes") <= 1440

\* JSON.stringify({ ...DEFAULT_CONFIG, accounts: [] }), written by acquireLock
DefaultText == JSONStringify(ObjectOf(DEFAULT_CONFIG, DefaultLiteralShape, {}), 0)

TextLabels == { "ld_text", "sv_text" }

\* acquireLock, on the text
acquireLockText(p) ==
  /\ pc[p] # << >>
  /\ Head(pc[p]) \in TextLabels
  /\ lock = NoProc
  /\ lock' = p
  /\ exists' = TRUE
  /\ file' = IF exists THEN file ELSE DefaultText
  /\ UNCHANGED << now, pc, reg, currentAccountIndex, ops, limit, doc0 >>

\* loadConfig: readFile, JSON.parse, KimiAccountsConfigSchema.parse
loadConfigText(p) ==
  /\ Section(p, "ld_text")
  /\ IF ~ParsesConfig(JSONParse(file)) THEN Throw(p, "ZodError")
     ELSE Goto(p, Tail(pc[p]), [ reg[p] EXCEPT !.loaded = ParseConfig(JSONParse(file)) ])
  /\ UNCHANGED << file, exists, now, currentAccountIndex, ops, limit, doc0 >>

\* saveConfig: KimiAccountsConfigSchema.parse, JSON.stringify(validated, null, 2)
saveConfigText(p) ==
  /\ Section(p, "sv_text")
  /\ IF ~ParsesConfig(reg[p].loaded)
     THEN /\ Throw(p, "ZodError")
          /\ UNCHANGED << file, exists >>
     ELSE /\ file' = JSONStringify(ParseConfig(reg[p].loaded), 2)
          /\ exists' = TRUE
          /\ Goto(p, Tail(pc[p]), reg[p])
  /\ UNCHANGED << now, currentAccountIndex, ops, limit, doc0 >>

\* storage.loadConfig()
StartLoad(p) ==
  /\ Idle(p)
  /\ Begin(p, << "ld_text" >>, [ BlankReg EXCEPT !.op = "loadConfig" ])

\* storage.saveConfig(await storage.loadConfig())
StartRoundTrip(p) ==
  /\ Idle(p)
  /\ Begin(p, << "ld_text", "sv_text" >>, [ BlankReg EXCEPT !.op = "roundTrip" ])

\* the stored account of a key: with every field, or with the fields that
\* have a default left out
AccountTexts(key) ==
  { ObjectOf(NewAccount(key, StartTime), AccountShape, dropped) :
      dropped \in { {}, DOMAIN AccountDefaults } }

AccountListTexts ==
  { << >> } \cup { << a >> : a \in AccountTexts("k1") }
            \cup { << a, b >> : a \in AccountTexts("k1"), b \in AccountTexts("k2") }

\* valid documents: written with indentation 2 or none, in the schema's key
\* order or the default literal's, with some defaulted fields left out
Texts ==
  { JSONStringify(ObjectOf([ DEFAULT_CONFIG EXCEPT !.accounts = accounts ], shape, dropped),
                  space) :
      accounts \in AccountListTexts,
      shape \in { ConfigShape, DefaultLiteralShape },
      dropped \in { {}, { "version" }, { "activeIndex", "rotationStrategy" },
                    DOMAIN ConfigDefaults },
      space \in { 0, 2 } }

InitBytes ==
  /\ \/ exists = TRUE /\ file \in Texts
     \/ exists = FALSE /\ file = DefaultText
  /\ doc0 = file
  /\ lock = NoProc
  /\ now = StartTime
  /\ pc = [ p \in Procs |-> << >> ]
  /\ reg = [ p \in Procs |-> BlankReg ]
  /\ currentAccountIndex = 0
  /\ ops = 0
  /\ limit = MaxTextOps

NextBytes ==
  \/ StartLoad(Caller)
  \/ StartRoundTrip(Caller)
  \/ acquireLockText(Caller)
  \/ loadConfigText(Caller)
  \/ saveConfigText(Caller)

SpecBytes == InitBytes /\ [][NextBytes]_vars

\* the step in which p writes the document it has just loaded
SavesLoaded(p) ==
  /\ reg[p].op = "roundTrip"
  /\ At(p, "sv_text")
  /\ lock = p
  /\ pc'[p] = << >>

\* C25: save(load()) leaves the stored content as it was, for every valid
\* document, the default document written when the file is created and
\* documents with defaulted fields absent included.
C25_RoundTripNoOp ==
  [][\A p \in Procs : SavesLoaded(p) => file' = file]_vars

\* ------------------------------------------------------------------------
\* C31 is checked under SpecSeq.

\* the time from which an account is neither rate- nor billing-limited
UsableFrom(account) == Max(account.rateLimitResetTime, account.billingLimitResetTime)

\* C31: when no account is available, the all-rate-limited fallback returns
\* the account with the smallest max(rateLimitResetTime,
\* billingLimitResetTime) among all accounts, the lowest index on ties.
C31_SoonestUsable ==
  \A p \in Procs :
    (Selected(p) /\ AvailableAt(p) = {} /\ reg[p].reason = "all-rate-limited")
      => \A j \in 0..(Len(reg[p].config.accounts) - 1) :
           /\ UsableFrom(Chosen(p)) <= UsableFrom(reg[p].config.accounts[j + 1])
           /\ UsableFrom(Chosen(p)) = UsableFrom(reg[p].config.accounts[j + 1])
                => reg[p].index <= j

\* C32 (SpecSeq): the all-rate-limited fallback leaves the whole document
\* unchanged under round-robin; under sticky and health-based it sets
\* activeIndex to the returned index and changes nothing else; under no
\* strategy does it increment totalRequests.
C32_FallbackWrites ==
  \A p \in Procs :
    (FirstSelect(p) /\ reg[p].reason = "all-rate-limited")
      => /\ doc0.rotationStrategy = "round-robin" => file = doc0
         /\ doc0.rotationStrategy # "round-robin"
              => file = [ doc0 EXCEPT !.activeIndex = reg[p].index ]
         /\ \A i \in 1..Len(doc0.accounts) :
              file.accounts[i].totalRequests = doc0.accounts[i].totalRequests

\* the sticky fallback moved activeIndex from 1 to 0 and wrote nothing else
C32_Witness ==
  /\ FirstSelect(Caller)
  /\ reg[Caller].reason = "all-rate-limited"
  /\ doc0.rotationStrategy = "sticky"
  /\ doc0.activeIndex = 1
  /\ reg[Caller].index = 0
  /\ file = [ doc0 EXCEPT !.activeIndex = 0 ]

\* ------------------------------------------------------------------------
\* SpecSingle: one caller; selectAccount and rotateToNext one after the
\* other on a store with no account or with one account that is new,
\* rate-limited, billing-limited or below the health floor.
InitSingle ==
  InitFrom(Docs({ 0, 1 }, { "fresh", "rate", "bill", "weak" }, Strategies), MaxSeqOps)

NextSingle ==
  \/ \E forceRotation \in BOOLEAN : StartSelect(Caller, forceRotation)
  \/ acquireLock(Caller)
  \/ getNextAccount(Caller)
  \/ markAccountUsed(Caller)
  \/ updateAccount(Caller)
  \/ saveConfig(Caller)
  \/ Tick

SpecSingle == InitSingle /\ [][NextSingle]_vars

\* C33: with exactly one account selectAccount returns it with index 0 and
\* reason single-account and increments its totalRequests by 1, under every
\* strategy and forceRotation value, limited or unhealthy or not; with no
\* account it returns an empty result, raises no error and leaves the
\* document unchanged.
C33_SingleOrEmpty ==
  \A p \in Procs :
    (Idle(p) /\ reg[p].op = "select")
      => /\ reg[p].status = "ok"
         /\ Len(doc0.accounts) = 1
              => /\ reg[p].index = 0
                 /\ reg[p].reason = "single-account"
                 /\ Len(file.accounts) = 1
                 /\ file.accounts[1].key = doc0.accounts[1].key
                 /\ file.accounts[1].totalRequests = doc0.accounts[1].totalRequests + ops
                 /\ file.activeIndex = doc0.activeIndex
         /\ Len(doc0.accounts) = 0
              => /\ reg[p].reason = "empty"
                 /\ file = doc0

\* a forced call under sticky returned the only account although it is
\* rate-limited
C33_Witness ==
  /\ Idle(Caller)
  /\ reg[Caller].op = "select"
  /\ reg[Caller].force
  /\ ops = 1
  /\ doc0.rotationStrategy = "sticky"
  /\ Len(doc0.accounts) = 1
  /\ doc0.accounts[1].rateLimitResetTime > reg[Caller].decidedAt
  /\ reg[Caller].reason = "single-account"
  /\ file.accounts[1].totalRequests = 1

\* ------------------------------------------------------------------------
\* SpecFrame: one caller reports successes (with and without a response
\* time), rate limits (retry after 1 or 5 minutes) and failures, one after
\* the other, on two accounts that are new, at health 0, just below 100 or
\* billing-limited.
InitFrame ==
  InitFrom(Docs({ 2 }, { "fresh", "dead", "near", "bill" }, { "health-based", "sticky" }),
           MaxSeqOps)

NextFrame ==
  \/ \E outcome \in { "success", "failure" }, index \in 0..1 :
       StartReport(Caller, outcome, index)
  \/ \E index \in 0..1 : StartReportTimed(Caller, index, 7)
  \/ \E index \in 0..1, retryAfterMs \in { 1, 5 } :
       StartReportRateLimited(Caller, index, retryAfterMs)
  \/ acquireLock(Caller)
  \/ markAccountOutcome(Caller)
  \/ updateAccount(Caller)
  \/ saveConfig(Caller)
  \/ Tick

SpecFrame == InitFrame /\ [][NextFrame]_vars

\* the step in which p's report is written
ReportSave(p) ==
  /\ reg[p].op = "report"
  /\ pc[p] = << "save" >>
  /\ lock = p
  /\ pc'[p] = << >>

\* the addressed account after the report, as the claim defines it; the
\* reset time of a rate limit is the one written, checked apart
Reported(account, outcome, responseTime, resetTime) ==
  CASE outcome = "success" ->
         [ account EXCEPT !.healthScore = IF @ + 2 > 100 THEN 100 ELSE @ + 2,
                          !.successfulRequests = @ + 1,
                          !.consecutiveFailures = 0,
                          !.responseTimes = IF responseTime = 0 - 1 THEN @
                                            ELSE WindowAfter(@, responseTime) ]
    [] outcome = "rate-limited" ->
         [ account EXCEPT !.healthScore = IF @ < 15 THEN 0 ELSE @ - 15,
                          !.rateLimitResetTime = resetTime,
                          !.consecutiveFailures = @ + 1 ]
    [] OTHER ->
         [ account EXCEPT !.healthScore = IF @ < 20 THEN 0 ELSE @ - 20,
                          !.consecutiveFailures = @ + 1 ]

\* C34: a success, rate-limit or failure report changes on the addressed
\* account only the fields its definition names (+2 capped at 100,
\* successfulRequests + 1, consecutiveFailures 0; -15 floored at 0,
\* rateLimitResetTime = now + retryAfterMs, consecutiveFailures + 1; -20
\* floored at 0, consecutiveFailures + 1) and nothing else in the document.
C34_ReportFrame ==
  [][\A p \in Procs :
       ReportSave(p)
         => /\ reg'[p].status = "ok"
            /\ file' = [ file EXCEPT !.accounts[reg[p].index + 1] =
                           Reported(@, reg[p].outcome, reg[p].responseTime,
                                    file'.accounts[reg[p].index + 1].rateLimitResetTime) ]
            /\ reg[p].outcome = "rate-limited"
                 => file'.accounts[reg[p].index + 1].rateLimitResetTime
                      - reg[p].retryAfterMs \in StartTime..now]_vars

\* a rate limit with retry after 5 minutes was reported for a
\* billing-limited account: its billing cooldown is as before
C34_Witness ==
  /\ Finished(Caller, "report")
  /\ ops = 1
  /\ reg[Caller].outcome = "rate-limited"
  /\ reg[Caller].retryAfterMs = 5
  /\ doc0.accounts[reg[Caller].index + 1].billingLimitResetTime > now
  /\ file.accounts[reg[Caller].index + 1].billingLimitResetTime
       = doc0.accounts[reg[Caller].index + 1].billingLimitResetTime
  /\ file.accounts[reg[Caller].index + 1].rateLimitResetTime >= StartTime + 5
  /\ file.accounts[reg[Caller].index + 1].healthScore = 55

\* ------------------------------------------------------------------------
\* C35 is checked under SpecRefresh.

\* the condition of the claim on account i of the document the call loaded
DueForRefresh(p, i) ==
  LET account == reg[p].config.accounts[i]
  IN  /\ reg[p].config.autoRefreshHealth
      /\ account.healthScore < 100
      /\ account.rateLimitResetTime <= reg[p].decidedAt
      /\ reg[p].decidedAt - account.rateLimitResetTime
           >= reg[p].config.healthRefreshCooldownMinutes

\* C35: refreshHealthScores changes an account if and only if
\* autoRefreshHealth is on, healthScore < 100, rateLimitResetTime <= now and
\* now - rateLimitResetTime >= the cooldown; it sets healthScore to
\* min(100, healthScore + 10) and consecutiveFailures to 0 on each such
\* account, leaves everything else as it is, and returns the number of
\* accounts changed.
C35_RefreshExact ==
  \A p \in Procs :
    Finished(p, "refreshHealthScores")
      => /\ file = [ reg[p].config EXCEPT !.accounts =
                       [ i \in 1..Len(reg[p].config.accounts) |->
                           IF DueForRefresh(p, i)
                           THEN [ reg[p].config.accounts[i] EXCEPT
                                    !.healthScore = IF @ + 10 > 100 THEN 100 ELSE @ + 10,
                                    !.consecutiveFailures = 0 ]
                           ELSE reg[p].config.accounts[i] ] ]
         /\ reg[p].refreshed
              = Cardinality({ i \in 1..Len(file.accounts) :
                                file.accounts[i] # reg[p].config.accounts[i] })

\* one account was refreshed while the other, below 100 with its rate-limit
\* window still open, was left as it was
C35_Witness ==
  /\ Finished(Caller, "refreshHealthScores")
  /\ reg[Caller].refreshed = 1
  /\ \E i \in 1..Len(file.accounts) :
       /\ reg[Caller].config.accounts[i].rateLimitResetTime > reg[Caller].decidedAt
       /\ reg[Caller].config.accounts[i].healthScore < 100
       /\ file.accounts[i] = reg[Caller].config.accounts[i]

\* ------------------------------------------------------------------------
\* SpecTimeout: one caller runs selectAccount, rotateToNext or an outcome
\* report while a second process reads the store with listKeys; a lock
\* acquisition that finds the lock held may time out.
Reader == CHOOSE p \in Procs : p # Caller

InitTimeout ==
  InitFrom(Docs({ 2 }, { "fresh", "weak", "rate" }, Strategies), MaxOps)

NextTimeout ==
  \/ \E forceRotation \in BOOLEAN : StartSelect(Caller, forceRotation)
  \/ \E outcome \in ReportedOutcomes, index \in 0..1 : StartReport(Caller, outcome, index)
  \/ StartListKeys(Reader)
  \/ \E p \in { Caller, Reader } : acquireLock(p)
  \/ \E p \in { Caller, Reader } : LockTimeout(p)
  \/ listKeys(Reader)
  \/ getNextAccount(Caller)
  \/ getAndIncrementActiveIndex(Caller)
  \/ setActiveIndex(Caller)
  \/ markAccountUsed(Caller)
  \/ markAccountOutcome(Caller)
  \/ updateAccount(Caller)
  \/ saveConfig(Caller)

SpecTimeout == InitTimeout /\ [][NextTimeout]_vars

\* the caller's only operation ended with the lock error; the other
\* operation of the run is the reader's
TimedOut(p) ==
  /\ Idle(p)
  /\ reg[p].op \in { "select", "report" }
  /\ reg[p].status = "error"
  /\ reg[p].error = "LockTimeout"
  /\ reg[Reader].op = "listKeys"

\* C36: a selectAccount call or an outcome report that fails with the lock
\* error at any of its lock acquisitions leaves the persisted document as it
\* was before the call; activeIndex in particular is not advanced.
C36_TimeoutNoEffect ==
  TimedOut(Caller) => file = doc0

\* ------------------------------------------------------------------------
\* SpecEmbedded: the copy of the store embedded in plugin.ts.  One process
\* loads the config through the embedded copy while a second process uses
\* the current store (listKeys, addAccount).

\* { version: 1, accounts: [], activeIndex: 0, rotationStrategy:
\* 'health-based' }, as the current schema reads it back
EmbeddedDefault == DEFAULT_CONFIG

EmbeddedLabels == { "em_lock", "em_relock" }

\* the embedded acquireLock: lockfile.lock; when it rejects, for whatever
\* reason, the catch block writes the default document and locks again
acquireLockEmbedded(p) ==
  /\ At(p, "em_lock")
  /\ IF exists /\ lock = NoProc
     THEN /\ lock' = p
          /\ pc' = [ pc EXCEPT ![p] = Tail(Tail(pc[p])) ]
          /\ UNCHANGED << file, exists >>
     ELSE /\ file' = EmbeddedDefault
          /\ exists' = TRUE
          /\ pc' = [ pc EXCEPT ![p] = Tail(pc[p]) ]
          /\ UNCHANGED lock
  /\ UNCHANGED << now, reg, currentAccountIndex, ops, limit, doc0 >>

\* the second lockfile.lock, in the catch block
relockEmbedded(p) ==
  /\ At(p, "em_relock")
  /\ IF lock = NoProc
     THEN /\ lock' = p
          /\ pc' = [ pc EXCEPT ![p] = Tail(pc[p]) ]
          /\ UNCHANGED reg
     ELSE /\ Throw(p, "LockTimeout")
          /\ UNCHANGED lock
  /\ UNCHANGED << file, exists, now, currentAccountIndex, ops, limit, doc0 >>

\* the embedded loadConfig inside its lock: readFile, JSON.parse
loadConfigEmbedded(p) ==
  /\ Section(p, "em_load")
  /\ Goto(p, Tail(pc[p]), [ reg[p] EXCEPT !.config = file ])
  /\ UNCHANGED << file, exists, now, currentAccountIndex, ops, limit, doc0 >>

\* loadConfig() of the embedded store
StartLoadEmbedded(p) ==
  /\ Idle(p)
  /\ Begin(p, << "em_lock", "em_relock", "em_load" >>,
        [ BlankReg EXCEPT !.op = "loadConfigEmbedded" ])

InitEmbedded ==
  InitFrom(Docs({ 0, 1, 2 }, { "fresh", "weak" }, { "health-based" }), MaxOps)

NextEmbedded ==
  \/ StartLoadEmbedded(Caller)
  \/ acquireLockEmbedded(Caller)
  \/ relockEmbedded(Caller)
  \/ loadConfigEmbedded(Caller)
  \/ StartListKeys(Reader)
  \/ StartAdd(Reader, "k3")
  \/ acquireLock(Reader)
  \/ LockTimeout(Reader)
  \/ listKeys(Reader)
  \/ addAccount(Reader)
  \/ saveConfig(Reader)

SpecEmbedded == InitEmbedded /\ [][NextEmbedded]_vars

\* p, waiting for the lock, makes an attempt: it gets the lock or fails
LockAttempt(p) ==
  /\ pc[p] # << >>
  /\ Head(pc[p]) \in LockLabels \cup EmbeddedLabels
  /\ lock # p
  /\ pc'[p] # pc[p] \/ reg'[p] # reg[p] \/ lock' = p

\* C37: no lock acquisition, in the store or in the copy embedded in
\* plugin.ts, replaces an existing document that holds accounts by the
\* empty default document; an acquisition that fails because another
\* process holds the lock leaves the account list unchanged.
C37_NoSilentReset ==
  [][\A p \in Procs :
       (LockAttempt(p) /\ exists /\ Len(file.accounts) > 0)
         => file'.accounts = file.accounts]_vars

\* ------------------------------------------------------------------------
\* SpecFlight: intercepted requests in flight at the same time in one
\* plugin instance; each caller is one call of the replaced fetch, and all
\* share the module-level currentAccountIndex.
InitFlight ==
  InitFrom(Docs({ 2 }, { "fresh" }, Strategies), MaxOps)

NextFlight ==
  \/ \E p \in Procs : StartFetch(p)
  \/ \E p \in Procs : acquireLock(p)
  \/ \E p \in Procs : getNextAccount(p)
  \/ \E p \in Procs : getAndIncrementActiveIndex(p)
  \/ \E p \in Procs : setActiveIndex(p)
  \/ \E p \in Procs : markAccountUsed(p)
  \/ \E p \in Procs : markAccountOutcome(p)
  \/ \E p \in Procs : updateAccount(p)
  \/ \E p \in Procs : saveConfig(p)
  \/ \E p \in Procs : setCurrentAccountIndex(p)
  \/ \E p \in Procs : listKeys(p)
  \/ \E p \in Procs, outcome \in Outcomes : originalFetch(p, outcome)

SpecFlight == InitFlight /\ [][NextFlight]_vars

\* the response of p's request arrives and its outcome is going to be
\* reported; before the step reg[p].index is what selectAccount returned
ResponseReported(p) ==
  /\ At(p, "ic_fetch")
  /\ pc'[p] = ReportSteps

\* C38: the outcome of each intercepted request is reported against the
\* index that selectAccount returned for that request, also with several
\* requests in flight and responses arriving in any order.
C38_ReportsOwnIndex ==
  [][\A p \in Procs : ResponseReported(p) => reg'[p].index = reg[p].index]_vars

\* ------------------------------------------------------------------------
\* SpecUndo: one caller removes an account while a second process runs
\* updateAccount, setActiveIndex, an outcome report or selectAccount; no
\* account is added.
InitUndo ==
  InitFrom(Docs({ 2 }, { "fresh" }, Strategies), MaxOps)

NextUndo ==
  \/ \E index \in 0..1 : StartRemove(Caller, index)
  \/ \E index \in 0..1, updates \in UpdateChoices : StartUpdate(Reader, index, updates)
  \/ \E index \in 0..1 : StartSetActive(Reader, index)
  \/ \E outcome \in { "success", "failure" }, index \in 0..1 :
       StartReport(Reader, outcome, index)
  \/ \E forceRotation \in BOOLEAN : StartSelect(Reader, forceRotation)
  \/ \E p \in { Caller, Reader } : acquireLock(p)
  \/ removeAccount(Caller)
  \/ \E p \in { Caller, Reader } : saveConfig(p)
  \/ updateAccount(Reader)
  \/ setActiveIndex(Reader)
  \/ markAccountOutcome(Reader)
  \/ getNextAccount(Reader)
  \/ getAndIncrementActiveIndex(Reader)
  \/ markAccountUsed(Reader)

SpecUndo == InitUndo /\ [][NextUndo]_vars

\* the caller's removeAccount, its only operation, has returned successfully
Removed(p) ==
  /\ Finished(p, "removeAccount")
  /\ reg[Reader].op # "none"

\* C39: once removeAccount(i) has returned successfully the removed key is
\* absent from every later persisted state (no addAccount follows), under
\* any interleaving with updateAccount, setActiveIndex, outcome reports and
\* selectAccount calls that loaded the document before the removal.
C39_RemovalPermanent ==
  Removed(Caller)
    => \A i \in 1..Len(file.accounts) :
         file.accounts[i].key # doc0.accounts[reg[Caller].index + 1].key

====
